---------------------------- MODULE Spec2Model ----------------------------
(***************************************************************************)
(* Model of the PALILA GUI listening-experiment program (src/GUI).        *)
(*                                                                         *)
(*   - PalilaExperiment (file_system.py): repeat expansion, verification  *)
(*     and preparation of the configuration tree;                          *)
(*   - PalilaScreenManager (__init__.py), questionnaire_setup              *)
(*     (questionnaire_screen.py) and the screen classes (screens.py,       *)
(*     audio_screen.py): construction of the screens and navigation;       *)
(*   - QuestionManager / Question (questions.py): the answers of a screen  *)
(*     and the lock / unlock of dependent questions;                       *)
(*   - PalilaAnswers (file_system.py): the answer table, the participant   *)
(*     id and the timer.                                                   *)
(*                                                                         *)
(* Strings that the program only compares or concatenates (section names,  *)
(* screen names, question ids) are TLA+ strings.  Strings that the program *)
(* takes apart (answers and unlock conditions, split on ';') are sequences *)
(* of one-character strings.                                               *)
(***************************************************************************)
EXTENDS Integers, Sequences, FiniteSets, TLC

VARIABLES
    cfg,        \* the configuration tree as read from the .palila file
    phase,      \* "load" | "prepared" | "running" | "crashed" | "error"
    exp,        \* PalilaExperiment after __init__ (the prepared tree)
    screens,    \* PalilaScreenManager.screens, in the order of add_widget
    current,    \* PalilaScreenManager.current
    qm,         \* per question screen: its QuestionManager and Questions
    ui,         \* per screen: continue button, audio managers, timers
    store,      \* PalilaAnswers: out, pid, out_path, timing, saves
    clock,      \* wall clock, in minutes
    ghost       \* history of the last handler (what it called, in order)

vars == <<cfg, phase, exp, screens, current, qm, ui, store, clock, ghost>>

(***************************************************************************)
(* Bounds of the model.                                                    *)
(***************************************************************************)
MaxParts == 2
MaxAudios == 2
MaxRepeat == 2
MaxRootQuestions == 8
MaxClock == 2
MaxAudioQuestions == 2
MaxChain == 3
MaxLocks == 2
MaxBack == 1

(***************************************************************************)
(* Generic helpers.                                                        *)
(***************************************************************************)
Range(s) == {s[i] : i \in DOMAIN s}

RECURSIVE SeqSum(_)
SeqSum(s) == IF s = <<>> THEN 0 ELSE Head(s) + SeqSum(Tail(s))

\* The permutations of 1..n, as sequences.
Perms(n) == {p \in [1..n -> 1..n] : \A i, j \in 1..n : i # j => p[i] # p[j]}

Permute(s, p) == [i \in 1..Len(s) |-> s[p[i]]]

IdPerm(n) == [i \in 1..n |-> i]

\* A Python dict: a function with a finite domain; key lookup of a missing key
\* is a KeyError, which the operators below report through their status.
Has(d, k) == k \in DOMAIN d

Put(d, k, v) == [x \in (DOMAIN d) \cup {k} |-> IF x = k THEN v ELSE d[x]]

\* LET x == v IN F(x), with v evaluated once however often F uses x
Bind(v, F(_)) == CHOOSE r \in {F(x) : x \in {v}} : TRUE

\* str.zfill(2) on a string without sign.
Zfill2(s) == IF Len(s) >= 2 THEN s ELSE IF Len(s) = 1 THEN "0" \o s ELSE "00"


(***************************************************************************)
(* Strings the program takes apart: sequences of one-character strings.   *)
(***************************************************************************)
EmptyStr == <<>>

NA == <<"n", "/", "a">>

\* str.split(';'): the pieces between the delimiters ('' gives [''])
RECURSIVE SplitAcc(_, _, _)
SplitAcc(s, cur, acc) ==
    IF s = <<>> THEN Append(acc, cur)
    ELSE IF Head(s) = ";" THEN SplitAcc(Tail(s), <<>>, Append(acc, cur))
    ELSE SplitAcc(Tail(s), Append(cur, Head(s)), acc)

Split(s) == SplitAcc(s, <<>>, <<>>)

(***************************************************************************)
(* The configuration tree (ConfigObj).  A section is a record; a key that  *)
(* may be absent has a has_... flag beside it.                             *)
(***************************************************************************)
NoQuestionnaire == [present |-> FALSE, has_manual |-> FALSE, manual |-> FALSE, questions |-> <<>>]

NoBreaks == [present |-> FALSE, interval |-> 0]

\* A question section with the keys the program reads.
Question(id, type) ==
    [id |-> id, name |-> "question " \o id, type |-> type, has_multi |-> FALSE, multi |-> FALSE,
     choices |-> <<>>, has_unlocked_by |-> FALSE, unlocked_by |-> "",
     has_cond |-> FALSE, cond |-> EmptyStr,
     has_manual_screen |-> FALSE, manual_screen |-> 0]

\* An audio section.
Audio(id, questions) ==
    [id |-> id, name |-> "audio " \o id, has_filename |-> TRUE, file_exists |-> TRUE,
     has_file2 |-> FALSE, file2_exists |-> TRUE, file2_loader |-> TRUE,
     has_repeat |-> FALSE, repeat |-> 0,
     has_max_replays |-> FALSE, max_replays |-> 1,
     questions |-> questions]

\* A part section.
Part(id, audios) ==
    [id |-> id, name |-> "part " \o id, has_intro |-> FALSE, breaks |-> NoBreaks,
     randomise |-> FALSE, has_questions |-> FALSE, questions |-> <<>>,
     audios |-> audios, questionnaire |-> NoQuestionnaire]

\* The top level of the file.
Config(parts) ==
    [pid_mode |-> "auto", randomise |-> FALSE, demo |-> FALSE, override |-> FALSE,
     has_questionnaire |-> FALSE, questionnaire |-> NoQuestionnaire, parts |-> parts]

(***************************************************************************)
(* Names and ids.                                                          *)
(***************************************************************************)
\* str(ri + 1).zfill(2) appended to the audio name (file_system.py line 86)
RepeatName(audio, ri) == audio \o "_" \o Zfill2(ToString(ri + 1))

\* A section is named "<prefix><id>"; name.replace(prefix, '') is the id, which
\* the records keep beside the name.
RepeatId(audio_id, ri) == audio_id \o "_" \o Zfill2(ToString(ri + 1))

(***************************************************************************)
(* PalilaExperiment.__init__: the list of parts and, per part, the list of *)
(* audios with the repeats expanded.  Question sections are objects on a   *)
(* heap (ref -> dict), because the later steps write into them.            *)
(***************************************************************************)
\* A copy that is the section it was copied from: what assigning the section
\* itself, in place of its deep copy, would give.
CopyQuestionAliased(src, part, owner, key) == src

\* The object a copied question section is: copy.deepcopy into a new dict
\* (lines 92-94 and 354-356), a new object owned by the audio it is put in.
CopyQuestion(src, part, owner, key) == <<part, owner, key>>

\* The question sections of one declared audio, as refs of the heap.
OwnRefs(part, a) == [i \in DOMAIN a.questions |-> <<part, a.name, a.questions[i].name>>]

\* One audio dict of the prepared tree.
AudioDict(a, name, id, refs) ==
    [name |-> name, id |-> id, has_filename |-> a.has_filename, file_exists |-> a.file_exists,
     has_file2 |-> a.has_file2, file2_exists |-> a.file2_exists, file2_loader |-> a.file2_loader,
     has_max_replays |-> a.has_max_replays, max_replays |-> a.max_replays,
     questions |-> [i \in DOMAIN a.questions |-> a.questions[i].name], refs |-> refs,
     has_filler |-> FALSE, filler |-> TRUE, part_audio |-> ""]

\* The expansion with an audio of repeat 0 (or less) kept as one copy.
ExpandAudioAtLeastOnce(part, a) ==
    IF a.has_repeat
    THEN [ri \in 1..(IF a.repeat < 1 THEN 1 ELSE a.repeat) |->
            AudioDict(a, RepeatName(a.name, ri - 1), RepeatId(a.id, ri - 1),
                      [i \in DOMAIN a.questions |->
                          CopyQuestion(<<part, a.name, a.questions[i].name>>, part,
                                       RepeatName(a.name, ri - 1), a.questions[i].name)])]
    ELSE <<AudioDict(a, a.name, a.id, OwnRefs(part, a))>>

\* lines 80-102: the audios one declared audio section stands for
ExpandAudio(part, a) ==
    IF a.has_repeat
    THEN [ri \in 1..a.repeat |->
            AudioDict(a, RepeatName(a.name, ri - 1), RepeatId(a.id, ri - 1),
                      [i \in DOMAIN a.questions |->
                          CopyQuestion(<<part, a.name, a.questions[i].name>>, part,
                                       RepeatName(a.name, ri - 1), a.questions[i].name)])]
    ELSE <<AudioDict(a, a.name, a.id, OwnRefs(part, a))>>

RECURSIVE ExpandAudios(_, _)
ExpandAudios(part, as) ==
    IF as = <<>> THEN <<>> ELSE ExpandAudio(part, Head(as)) \o ExpandAudios(part, Tail(as))

\* A question section as a dict: the keys of the file and the keys the
\* preparation adds ('part-audio', 'id'; 'multi' is converted in place).
QuestionDict(q) == q @@ [part_audio |-> "", qid |-> ""]

\* The heap after the expansion: every declared question section (of an audio
\* or of a part's 'questions' section), and a copy of it for every expanded audio.
InitialHeap(c) ==
    LET declared == UNION {UNION {{<<p, a, q>> : q \in DOMAIN c.parts[p].audios[a].questions} :
                               a \in DOMAIN c.parts[p].audios} : p \in DOMAIN c.parts}
        obj(t) == c.parts[t[1]].audios[t[2]].questions[t[3]]
        own(t) == <<c.parts[t[1]].name, c.parts[t[1]].audios[t[2]].name, obj(t).name>>
        copies(t) == LET ex == ExpandAudio(c.parts[t[1]].name, c.parts[t[1]].audios[t[2]])
                     IN  {ex[i].refs[t[3]] : i \in DOMAIN ex}
        partq == UNION {{<<p, q>> : q \in DOMAIN c.parts[p].questions} : p \in DOMAIN c.parts}
        pref(t) == <<c.parts[t[1]].name, "questions", c.parts[t[1]].questions[t[2]].name>>
        refs == UNION {copies(t) \cup {own(t)} : t \in declared}
    IN  [r \in refs \cup {pref(t) : t \in partq} |->
            IF r \in refs
            THEN QuestionDict(obj(CHOOSE t \in declared : r \in copies(t) \cup {own(t)}))
            ELSE LET t == CHOOSE u \in partq : pref(u) = r
                 IN  QuestionDict(c.parts[t[1]].questions[t[2]])]

Link == [previous |-> "", next |-> ""]

QuestionnaireDict(q) ==
    [present |-> q.present, has_manual |-> q.has_manual, manual |-> q.manual,
     manual_split |-> FALSE,
     q |-> [i \in DOMAIN q.questions |-> QuestionDict(q.questions[i])],
     questions |-> <<>>, screen_dict |-> [k \in {} |-> <<>>], link |-> Link]

\* lines 71-106: the tree after the expansion of the repeats
LoadPart(pc) ==
    LET ex == ExpandAudios(pc.name, pc.audios)
        names == [i \in DOMAIN ex |-> ex[i].name]
    IN  [name |-> pc.name, id |-> pc.id,
         has_sections |-> (pc.has_intro \/ pc.breaks.present \/ pc.has_questions
                           \/ pc.questionnaire.present \/ ex # <<>>),
         has_intro |-> pc.has_intro, breaks |-> pc.breaks, randomise |-> pc.randomise,
         has_questions |-> pc.has_questions,
         questions |-> [i \in DOMAIN pc.questions |-> pc.questions[i].name],
         audios |-> names,
         audio |-> [n \in Range(names) |-> ex[CHOOSE i \in DOMAIN ex : ex[i].name = n]],
         questionnaire |-> QuestionnaireDict(pc.questionnaire),
         links |-> [k \in {} |-> Link]]

Load(c) ==
    [status |-> "ok",
     parts |-> [i \in DOMAIN c.parts |-> c.parts[i].name],
     part |-> [n \in {c.parts[i].name : i \in DOMAIN c.parts} |->
                  LoadPart(c.parts[CHOOSE i \in DOMAIN c.parts : c.parts[i].name = n])],
     has_questionnaire |-> c.has_questionnaire,
     questionnaire |-> QuestionnaireDict(c.questionnaire),
     heap |-> InitialHeap(c),
     question_id_list |-> <<>>,
     randomise |-> c.randomise, demo |-> c.demo, override |-> c.override,
     pid_mode |-> c.pid_mode]

(***************************************************************************)
(* PalilaExperiment._verify_part and _verify_experiment.                   *)
(***************************************************************************)
\* lines 127-181.  The keys of intro and breaks are taken to be well formed.
VerifyPart(E, part) ==
    LET P == E.part[part]
        qn == P.questionnaire
        bad_manual == qn.present /\ qn.has_manual /\ qn.manual
        missing == \E i \in DOMAIN qn.q : ~qn.q[i].has_manual_screen
        \* line 169: raises when 'manual screen' IS numeric
        numeric == \E i \in DOMAIN qn.q : qn.q[i].has_manual_screen
    IN  IF ~P.has_sections THEN "SyntaxError"
        ELSE IF P.audios = <<>> THEN "SyntaxError"
        ELSE IF bad_manual /\ (missing \/ numeric) THEN "SyntaxError"
        ELSE IF \E n \in Range(P.audios) : ~P.audio[n].has_filename THEN "SyntaxError"
        ELSE IF \E n \in Range(P.audios) : ~P.audio[n].file_exists THEN "FileNotFoundError"
        ELSE "ok"

\* lines 192-217
VerifyExperiment(E) ==
    LET qn == E.questionnaire
        missing == \E i \in DOMAIN qn.q : ~qn.q[i].has_manual_screen
        bad == {n \in Range(E.parts) : VerifyPart(E, n) # "ok"}
    IN  IF qn.has_manual /\ qn.manual /\ missing THEN "SyntaxError"
        ELSE IF E.parts = <<>> THEN "SyntaxError"
        ELSE IF bad # {}
             THEN VerifyPart(E, E.parts[CHOOSE i \in DOMAIN E.parts :
                                   /\ E.parts[i] \in bad
                                   /\ \A j \in 1..(i - 1) : E.parts[j] \notin bad])
        ELSE "ok"

\* as_bool('manual split') stored back by the verification (lines 163, 173, 202, 209)
ManualSplit(qn) == qn.has_manual /\ qn.manual

(***************************************************************************)
(* PalilaExperiment._prepare_questionnaire.                                *)
(***************************************************************************)
\* The number of questions one questionnaire screen has room for (iq // 7).
QuestionsPerScreen == 7

\* line 313
QuestionnaireQid(part_id, question_id) ==
    Zfill2(part_id) \o "-questionnaire-" \o Zfill2(question_id)

\* lines 297-301: the screen a question is placed on
ScreenNum(manual_split, question, iq) ==
    IF manual_split THEN question.manual_screen ELSE iq \div QuestionsPerScreen

\* lines 303-307: each screen number met in the loop is a key, and its list is
\* the names of the questions placed on it, in the order of the loop (iq
\* counts from 0)
ScreenDict(manual_split, q) ==
    LET keys == {ScreenNum(manual_split, q[i], i - 1) : i \in DOMAIN q}
    IN  [n \in keys |->
            LET placed == SelectSeq([i \in DOMAIN q |-> i],
                                    LAMBDA i : ScreenNum(manual_split, q[i], i - 1) = n)
            IN  [j \in DOMAIN placed |-> q[placed[j]].name]]

\* lines 230-320; part_id is 'main' or the part's id
PrepareQuestionnaire(qd, part_id) ==
    LET manual_split == ManualSplit(qd)
    IN  [qd EXCEPT
            !.manual_split = manual_split,
            !.link.previous = IF part_id = "main" THEN "welcome" ELSE @,
            !.questions = [i \in DOMAIN qd.q |-> qd.q[i].name],
            !.q = [i \in DOMAIN qd.q |->
                      [qd.q[i] EXCEPT !.part_audio = Zfill2(part_id) \o "-questionnaire-",
                                      !.multi = qd.q[i].has_multi /\ qd.q[i].multi,
                                      !.qid = QuestionnaireQid(part_id, qd.q[i].id)]],
            !.screen_dict = ScreenDict(manual_split, qd.q)]

\* line 314: the ids the questionnaire appends to question_id_list
QuestionnaireIds(qd, part_id) == [i \in DOMAIN qd.q |-> QuestionnaireQid(part_id, qd.q[i].id)]

(***************************************************************************)
(* PalilaExperiment._prepare_part_audio.                                   *)
(***************************************************************************)
\* line 363
PartAudio(part_id, audio_id) == Zfill2(part_id) \o "-" \o Zfill2(audio_id)

\* line 404
AudioQid(part_id, audio_id, question_id) ==
    Zfill2(part_id) \o "-" \o Zfill2(audio_id) \o "-" \o Zfill2(question_id)

\* lines 366-374: the replay counters of an audio
ReplayIds(A, part_audio) ==
    IF A.has_max_replays /\ A.max_replays > 1
    THEN IF A.has_file2 THEN <<part_audio \o "-replays-left", part_audio \o "-replays-right">>
         ELSE <<part_audio \o "-replays">>
    ELSE <<>>

\* lines 348-358: the part's questions copied into the audio
RECURSIVE OverwriteQuestions(_, _, _, _, _)
OverwriteQuestions(heap, part, audio, keys, i) ==
    IF i > Len(keys) THEN heap
    ELSE LET src == <<part, "questions", keys[i]>>
             ref == CopyQuestion(src, part, audio, keys[i])
         IN  Bind(Put(heap, ref, heap[src]),
                  LAMBDA heap1 : OverwriteQuestions(heap1, part, audio, keys, i + 1))

\* lines 377-406: the loop over the questions writes into the question dicts
RECURSIVE PrepareQuestions(_, _, _, _, _)
PrepareQuestions(heap, refs, part_id, audio_id, i) ==
    IF i > Len(refs) THEN heap
    ELSE LET o == heap[refs[i]]
             n == [o EXCEPT !.part_audio = PartAudio(part_id, audio_id) \o "-",
                            !.multi = o.has_multi /\ o.multi,
                            !.qid = AudioQid(part_id, audio_id, o.id)]
         IN  Bind(Put(heap, refs[i], n),
                  LAMBDA heap1 : PrepareQuestions(heap1, refs, part_id, audio_id, i + 1))

\* lines 336-406
PreparePartAudio(E, part, audio, question_overwrite) ==
    LET P == E.part[part]
        A == P.audio[audio]
        keys == IF question_overwrite THEN P.questions ELSE A.questions
        refs == IF question_overwrite
                THEN [i \in DOMAIN keys |-> CopyQuestion(<<part, "questions", keys[i]>>, part, audio, keys[i])]
                ELSE A.refs
        part_audio == PartAudio(P.id, A.id)
    IN  Bind(IF question_overwrite THEN OverwriteQuestions(E.heap, part, audio, keys, 1) ELSE E.heap,
             LAMBDA heap1 :
                [E EXCEPT !.heap = PrepareQuestions(heap1, refs, P.id, A.id, 1),
                          !.part[part].audio[audio] =
                              [A EXCEPT !.questions = keys, !.refs = refs, !.part_audio = part_audio,
                                        !.max_replays = IF A.has_max_replays THEN @ ELSE 1],
                          !.question_id_list =
                              @ \o ReplayIds(A, part_audio)
                                \o [i \in DOMAIN refs |-> AudioQid(P.id, A.id, heap1[refs[i]].id)]])

(***************************************************************************)
(* PalilaExperiment._prepare_part and _prepare_experiment.                 *)
(***************************************************************************)
\* self[part][key]['previous'] / ['next']: the questionnaire section keeps its
\* own pair, every other section of a part has its pair in links.
GetLink(E, part, key) ==
    IF key = "questionnaire" THEN E.part[part].questionnaire.link
    ELSE IF Has(E.part[part].links, key) THEN E.part[part].links[key] ELSE Link

\* A 'next' that is never stored.
SetNextDropped(E, part, key, name) == E

\* self[part][key]['next'] = name
SetNext(E, part, key, name) ==
    IF key = "questionnaire" THEN [E EXCEPT !.part[part].questionnaire.link.next = name]
    ELSE [E EXCEPT !.part[part].links = Put(@, key, [GetLink(E, part, key) EXCEPT !.next = name])]

\* self[part][key]['previous'] = name
SetPrevious(E, part, key, name) ==
    IF key = "questionnaire" THEN [E EXCEPT !.part[part].questionnaire.link.previous = name]
    ELSE [E EXCEPT !.part[part].links = Put(@, key, [GetLink(E, part, key) EXCEPT !.previous = name])]

\* Python's a % b for a >= 0 and b # 0 (the result has the sign of b)
PyMod(a, b) ==
    IF b > 0 THEN a % b
    ELSE IF a % (0 - b) = 0 THEN 0 ELSE (a % (0 - b)) + b

\* f'break {break_count}' and f'{part}-{audio}'
BreakName(part, break_count) == part \o "-break " \o ToString(break_count)

\* Line 499 without its test for the last audio.
AddBreakAfterLast(break_interval, ia, n_audios) ==
    /\ break_interval # 0
    /\ PyMod(ia + 1, break_interval) = 0

\* line 499
AddBreak(break_interval, ia, n_audios) ==
    /\ break_interval # 0
    /\ PyMod(ia + 1, break_interval) = 0
    /\ (ia + 1) < n_audios

\* lines 480-515: one turn of the loop over the audios; st is the loop's state
\* (E, previous_audio, previous_name, break_count)
AudioStep(st, part, breaks, break_interval, question_overwrite, ia) ==
    LET audios == st.E.part[part].audios
        audio == audios[ia + 1]
        current_name == part \o "-" \o audio
        E1 == IF ia = 0 THEN SetNext(st.E, part, "intro", current_name) ELSE st.E
        add_break == AddBreak(break_interval, ia, Len(audios))
        break_name == BreakName(part, st.break_count)
    IN  Bind(SetNext(E1, part, st.previous_audio, current_name), LAMBDA E2 :
        Bind(SetPrevious(E2, part, audio, st.previous_name), LAMBDA E3 :
        Bind(PreparePartAudio(E3, part, audio, question_overwrite), LAMBDA E4 :
            IF breaks /\ add_break
            THEN Bind(SetNext(E4, part, audio, break_name), LAMBDA E5 :
                    [E |-> SetPrevious(E5, part, break_name, current_name),
                     previous_audio |-> break_name, previous_name |-> break_name,
                     break_count |-> st.break_count + 1])
            ELSE [E |-> E4, previous_audio |-> audio, previous_name |-> current_name,
                  break_count |-> st.break_count])))

\* lines 478-515: the loop over the audios
RECURSIVE AudioLoop(_, _, _, _, _, _)
AudioLoop(st, part, breaks, break_interval, question_overwrite, ia) ==
    IF ia >= Len(st.E.part[part].audios) THEN st
    ELSE Bind(AudioStep(st, part, breaks, break_interval, question_overwrite, ia),
              LAMBDA st1 : AudioLoop(st1, part, breaks, break_interval, question_overwrite, ia + 1))

\* lines 434-454: the intro of the part
PrepareIntro(E, ip, part, previous_part, previous_audio, previous_name) ==
    Bind(SetPrevious([E EXCEPT !.part[part].has_intro = TRUE], part, "intro", previous_name),
         LAMBDA E1 : IF ip = 0 THEN [E1 EXCEPT !.questionnaire.link.next = part \o "-intro"]
                     ELSE SetNext(E1, previous_part, previous_audio, part \o "-intro"))

\* lines 521-531: the questionnaire at the end of the part
PreparePartQuestionnaire(st, part) ==
    LET P == st.E.part[part]
        current_name == part \o "-questionnaire 1"
    IN  IF ~P.questionnaire.present THEN st
        ELSE Bind(SetNext(st.E, part, st.previous_audio, current_name), LAMBDA E1 :
             Bind(SetPrevious(E1, part, "questionnaire", st.previous_name), LAMBDA E2 :
                [st EXCEPT !.E = [E2 EXCEPT !.part[part].questionnaire = PrepareQuestionnaire(@, P.id),
                                            !.question_id_list = @ \o QuestionnaireIds(P.questionnaire, P.id)],
                           !.previous_audio = "questionnaire",
                           !.previous_name = current_name]))

\* lines 533-546: the break at the end of the part
PrepareLastBreak(st, part, breaks, break_interval) ==
    LET break_name == BreakName(part, st.break_count)
    IN  IF breaks /\ break_interval >= 0
        THEN Bind(SetNext(st.E, part, st.previous_audio, break_name), LAMBDA E1 :
                [E |-> SetPrevious(E1, part, break_name, st.previous_name),
                 previous_audio |-> break_name, previous_name |-> break_name,
                 break_count |-> st.break_count + 1])
        ELSE st

\* lines 434-548; perm is the outcome of random.shuffle on the part's audios
PreparePart(E, ip, part, previous_part, previous_audio, previous_name, perm) ==
    LET P == E.part[part]
        breaks == P.breaks.present
        break_interval == IF breaks THEN P.breaks.interval ELSE 0
        break_count == IF breaks THEN 1 ELSE 0
    IN  Bind(PrepareIntro(E, ip, part, previous_part, previous_audio, previous_name), LAMBDA E2 :
        Bind([E |-> IF P.randomise THEN [E2 EXCEPT !.part[part].audios = Permute(@, perm)] ELSE E2,
              previous_audio |-> "intro", previous_name |-> part \o "-intro",
              break_count |-> break_count], LAMBDA st0 :
        Bind(AudioLoop(st0, part, breaks, break_interval, P.has_questions, 0), LAMBDA st1 :
        Bind(PreparePartQuestionnaire(st1, part), LAMBDA st2 :
            PrepareLastBreak(st2, part, breaks, break_interval)))))

\* lines 593-600: the loop over the parts, and the end screen after the last
RECURSIVE PartLoop(_, _, _, _, _, _)
PartLoop(E, ip, previous_part, previous_audio, previous_name, perms) ==
    IF ip >= Len(E.parts)
    THEN SetNext(E, previous_part, previous_audio, "end")
    ELSE Bind(PreparePart(E, ip, E.parts[ip + 1], previous_part, previous_audio, previous_name,
                          perms[E.parts[ip + 1]]),
              LAMBDA st : PartLoop(st.E, ip + 1, E.parts[ip + 1], st.previous_audio,
                                   st.previous_name, perms))

\* lines 558-600; part_perm and perms are the outcomes of the shuffles
PrepareExperiment(E, part_perm, perms) ==
    Bind([E EXCEPT !.questionnaire = PrepareQuestionnaire(@, "main"),
                   !.question_id_list = @ \o QuestionnaireIds(E.questionnaire, "main"),
                   !.parts = IF E.randomise THEN Permute(@, part_perm) ELSE @],
         LAMBDA E1 : PartLoop(E1, 0, "", "", "main-questionnaire 1", perms))

\* PalilaExperiment.__init__ (lines 57-113): load, verify, prepare
PalilaExperiment(c, part_perm, perms) ==
    Bind(Load(c), LAMBDA E :
        Bind(VerifyExperiment(E), LAMBDA v :
            IF v # "ok" THEN [E EXCEPT !.status = v] ELSE PrepareExperiment(E, part_perm, perms)))

(***************************************************************************)
(* questionnaire_setup and PalilaScreenManager._initialise_screens.        *)
(* A screen is a record; the manager's screens are a sequence in the order *)
(* of add_widget.                                                          *)
(***************************************************************************)
\* PalilaScreen.__init__ with the fields the subclasses add
Screen(name, kind, previous_screen, next_screen) ==
    [name |-> name, kind |-> kind, previous_screen |-> previous_screen,
     next_screen |-> next_screen, part |-> "", key |-> "", state_override |-> FALSE,
     questions |-> <<>>]

ScreenNames(scr) == {scr[i].name : i \in DOMAIN scr}

\* ScreenManager.has_screen / get_screen: the first screen of that name
HasScreen(scr, name) == name \in ScreenNames(scr)

ScreenIndex(scr, name) ==
    CHOOSE i \in DOMAIN scr : scr[i].name = name /\ \A j \in 1..(i - 1) : scr[j].name # name

GetScreen(scr, name) == scr[ScreenIndex(scr, name)]

\* str(int): the decimal digits, most significant first
RECURSIVE Digits(_)
Digits(n) == IF n < 10 THEN <<n>> ELSE Append(Digits(n \div 10), n % 10)

\* a < b on strings of digits (the order sorted() and max() use on the keys)
RECURSIVE LexLess(_, _)
LexLess(a, b) ==
    IF b = <<>> THEN FALSE
    ELSE IF a = <<>> THEN TRUE
    ELSE IF Head(a) # Head(b) THEN Head(a) < Head(b)
    ELSE LexLess(Tail(a), Tail(b))

StrLess(m, n) == LexLess(Digits(m), Digits(n))

\* sorted(screen_dict.keys()), the keys being str(int)
RECURSIVE SortedKeys(_)
SortedKeys(S) ==
    IF S = {} THEN <<>>
    ELSE LET m == CHOOSE x \in S : \A y \in S \ {x} : StrLess(x, y)
         IN  <<m>> \o SortedKeys(S \ {m})

\* max(screen_nums)
MaxKey(S) == CHOOSE x \in S : \A y \in S \ {x} : StrLess(y, x)

\* f'{part}-questionnaire-{n}' (questionnaire_screen.py lines 376, 381, 388)
QuestionnaireScreenName(part, n) == part \o "-questionnaire-" \o ToString(n)

\* the ids of the questions of one screen, in the order of add_question
QuestionnaireScreenQids(qd, names) ==
    [i \in DOMAIN names |-> (qd.q[CHOOSE k \in DOMAIN qd.q : qd.q[k].name = names[i]]).qid]

\* questionnaire_screen.py lines 372-390: the screens of one questionnaire
QuestionnaireScreens(qd, state_override, part) ==
    LET screen_nums == SortedKeys(DOMAIN qd.screen_dict)
    IN  [i \in DOMAIN screen_nums |->
            LET ii == i - 1
                screen_num == screen_nums[i]
                previous_screen == IF ii # 0 THEN QuestionnaireScreenName(part, ii)
                                   ELSE qd.link.previous
                next_screen == IF StrLess(screen_num, MaxKey(DOMAIN qd.screen_dict))
                               THEN QuestionnaireScreenName(part, ii + 2)
                               ELSE qd.link.next
            IN  [Screen(QuestionnaireScreenName(part, ii + 1), "questionnaire",
                        previous_screen, next_screen)
                    EXCEPT !.part = part, !.key = ToString(screen_num),
                           !.state_override = state_override,
                           !.questions = QuestionnaireScreenQids(qd, qd.screen_dict[screen_num])]]

\* questionnaire_screen.py lines 369-390; m is [status, screens]
QuestionnaireSetup(qd, m, state_override, part) ==
    IF m.status # "ok" THEN m
    ELSE IF DOMAIN qd.screen_dict = {}
    THEN IF HasScreen(m.screens, qd.link.previous)
         THEN [m EXCEPT !.screens[ScreenIndex(m.screens, qd.link.previous)].next_screen = qd.link.next]
         ELSE [m EXCEPT !.status = "ScreenManagerException"]
    ELSE [m EXCEPT !.screens = @ \o QuestionnaireScreens(qd, state_override, part)]

\* 'break' in name, for the names the preparation makes
IsBreakName(E, name) ==
    \E i \in DOMAIN E.parts : \E k \in 1..(Len(E.part[E.parts[i]].audios) + 1) :
        name = BreakName(E.parts[i], k)

\* TimedTextScreen(self.experiment[part][key], name=name)
TimedTextScreen(E, part, key, name, kind) ==
    [Screen(name, kind, GetLink(E, part, key).previous, GetLink(E, part, key).next)
        EXCEPT !.part = part, !.key = key]

\* AudioQuestionScreen(self.experiment[part][audio], name=..., state_override=override)
AudioQuestionScreen(E, part, audio, override) ==
    LET A == E.part[part].audio[audio]
    IN  [Screen(part \o "-" \o audio, "audio", GetLink(E, part, audio).previous,
                GetLink(E, part, audio).next)
            EXCEPT !.part = part, !.key = audio, !.state_override = override,
                   !.questions = [i \in DOMAIN A.refs |-> E.heap[A.refs[i]].qid]]

\* __init__.py lines 113-126: the loop over the audios of a part
RECURSIVE AudioScreens(_, _, _, _)
AudioScreens(E, part, override, ia) ==
    LET audios == E.part[part].audios
    IN  IF ia > Len(audios) THEN <<>>
        ELSE LET audio == audios[ia]
                 next == GetLink(E, part, audio).next
                 brk == IF IsBreakName(E, next)
                        THEN <<TimedTextScreen(E, part, next, next, "break")>> ELSE <<>>
             IN  <<AudioQuestionScreen(E, part, audio, override)>> \o brk
                    \o AudioScreens(E, part, override, ia + 1)

\* initialise_manager (audio_screen.py lines 189-190) on the second file:
\* SoundLoader.load does not look for the file.  It gives None when no loader
\* takes the extension of the name, and audio.on_stop = ... then raises
\* AttributeError; with a loader it gives a Sound, whether or not the file is
\* there to be loaded.
AudioLoadFails(E, part) ==
    \E a \in Range(E.part[part].audios) :
        E.part[part].audio[a].has_file2 /\ ~E.part[part].audio[a].file2_loader

\* __init__.py lines 129-138: the questionnaire of a part and the break after it
PartQuestionnaireScreens(E, m, override, part) ==
    LET P == E.part[part]
        next == P.questionnaire.link.next
    IN  IF ~P.questionnaire.present THEN m
        ELSE Bind(QuestionnaireSetup(P.questionnaire, m, override, part), LAMBDA m1 :
                IF m1.status = "ok" /\ IsBreakName(E, next)
                THEN [m1 EXCEPT !.screens = Append(@, TimedTextScreen(E, part, next, next, "break"))]
                ELSE m1)

\* __init__.py lines 109-138: the loop over the parts
RECURSIVE PartScreens(_, _, _, _)
PartScreens(E, m, override, ip) ==
    IF ip > Len(E.parts) \/ m.status # "ok" THEN m
    ELSE LET part == E.parts[ip]
         IN  Bind([m EXCEPT !.screens = @ \o <<TimedTextScreen(E, part, "intro", part \o "-intro", "intro")>>
                                          \o AudioScreens(E, part, override, 1),
                            !.status = IF AudioLoadFails(E, part) THEN "AttributeError" ELSE @],
                  LAMBDA m1 :
             Bind(PartQuestionnaireScreens(E, m1, override, part),
                  LAMBDA m2 : PartScreens(E, m2, override, ip + 1)))

\* __init__.py lines 89-142
InitialiseScreens(E) ==
    LET welcome == Screen("welcome", "welcome", "", "main-questionnaire 1")
        \* line 97: the experiment has no 'demo dict'
        m0 == [status |-> IF E.demo THEN "KeyError" ELSE "ok", screens |-> <<welcome>>,
               current |-> "welcome"]
    IN  Bind(QuestionnaireSetup(E.questionnaire, m0, E.override, "main"), LAMBDA m1 :
        Bind(PartScreens(E, m1, E.override, 1), LAMBDA m2 :
            IF m2.status # "ok" THEN m2
            ELSE [m2 EXCEPT !.screens = @ \o <<Screen("end", "end", "main-questionnaire 1", "final"),
                                               Screen("final", "final", "end", "")>>]))

(***************************************************************************)
(* QuestionManager and Question (questions.py), on the state s of one      *)
(* AudioQuestionScreen: the answers, the questions, the audio counters and *)
(* the continue button.  s.log is the history of the running handler.      *)
(***************************************************************************)
\* ';'.join(texts) (answer_str with its last ';' cut off, lines 374-379)
RECURSIVE Join(_)
Join(texts) ==
    IF texts = <<>> THEN <<>>
    ELSE IF Len(texts) = 1 THEN texts[1]
    ELSE texts[1] \o <<";">> \o Join(Tail(texts))

\* self.choices / self.choice_temp: None or a list of buttons (their texts)
None == [none |-> TRUE, list |-> <<>>]

List(l) == [none |-> FALSE, list |-> l]

\* QuestionManager.get_state (lines 99-104): the fold over answers.items()
RECURSIVE GetStateLoop(_, _, _, _)
GetStateLoop(answers, order, i, total_state) ==
    IF i > Len(order) THEN total_state
    ELSE GetStateLoop(answers, order, i + 1, total_state /\ (answers[order[i]] # EmptyStr))

\* A state that is true as soon as one question is answered.
GetStateAny(s) == \E id \in DOMAIN s.answers : s.answers[id] # EmptyStr

GetState(s) == GetStateLoop(s.answers, s.order, 1, TRUE)

\* An unlock_check that looks at the answers only.
QuestionScreenUnlockCheckStrict(s) == [s EXCEPT !.cont = GetState(s)]

\* QuestionScreen.unlock_check (screens.py lines 358-371)
QuestionScreenUnlockCheck(s) == [s EXCEPT !.cont = GetState(s) \/ s.state_override]

\* An unlock check that does not look whether audio is playing.
UnlockCheckWhilePlaying(s) ==
    LET audio_state == s.count_left >= 1 /\ (~s.right_active \/ s.count_right >= 1)
    IN  Bind(IF audio_state \/ s.state_override
             THEN Bind([s EXCEPT !.disabled = FALSE], LAMBDA s1 : QuestionScreenUnlockCheck(s1))
             ELSE [s EXCEPT !.cont = FALSE],
             LAMBDA r : [r EXCEPT !.log = Append(@, [op |-> "unlock_check", cont |-> r.cont,
                                                      state |-> GetState(s),
                                                      override |-> s.state_override,
                                                      audio_state |-> audio_state,
                                                      playing |-> s.audio_playing # "none"])])

\* AudioQuestionScreen.unlock_check (audio_screen.py lines 123-138)
UnlockCheck(s) ==
    LET audio_state_left == s.count_left >= 1
        audio_state_right == ~s.right_active \/ s.count_right >= 1
        audio_state == audio_state_left /\ audio_state_right
    IN  Bind(IF (audio_state \/ s.state_override) /\ s.audio_playing = "none"
             THEN Bind([s EXCEPT !.disabled = FALSE], LAMBDA s1 : QuestionScreenUnlockCheck(s1))
             ELSE [s EXCEPT !.cont = FALSE],
             LAMBDA r : [r EXCEPT !.log = Append(@, [op |-> "unlock_check", cont |-> r.cont,
                                                      state |-> GetState(s),
                                                      override |-> s.state_override,
                                                      audio_state |-> audio_state,
                                                      playing |-> s.audio_playing # "none"])])

\* QuestionManager.change_answer (lines 117-119).  The widget tree that fixes
\* self.parent is in the kv files; the call is taken as the unlock_check of the
\* screen the manager is on, which computes the state itself (the keyword
\* question_state of the call is not a parameter of QuestionScreen.unlock_check).
ManagerChangeAnswer(s, question_id, answer) ==
    Bind([s EXCEPT !.answers[question_id] = answer], LAMBDA s1 :
        [UnlockCheck(s1) EXCEPT !.log = Append(@, [op |-> "change_answer", qid |-> question_id,
                                                   answer |-> answer, before |-> s.answers,
                                                   state |-> GetState(s1)])])

\* Widget.disabled of a question: its own flag or that of the manager it is in
Disabled(s, qid) == s.q[qid].disabled \/ s.disabled

\* A condition that is met by the answer equal to it, as a whole.
ConditionMetWhole(answer, unlock_condition) == answer = unlock_condition

\* line 211: any(a in unlock_condition.split(';') for a in answer.split(';'))
ConditionMet(answer, unlock_condition) ==
    \E i \in DOMAIN Split(answer) : Split(answer)[i] \in Range(Split(unlock_condition))

IsButton(type) == type \in {"MultipleChoice", "IntegerScale", "Annoyance"}

RECURSIVE ChangeAnswer(_, _, _)
RECURSIVE ForDependants(_, _, _, _)
RECURSIVE DependantLock(_, _)
RECURSIVE DependantUnlock(_, _)
RECURSIVE SelectChoice(_, _, _)
RECURSIVE ReplayChoices(_, _, _, _)

\* Question.change_answer (lines 208-219): the dependants first, the manager after
ChangeAnswer(s, qid, answer) ==
    Bind(ForDependants(s, qid, answer, 1), LAMBDA s1 : ManagerChangeAnswer(s1, qid, answer))

\* A lock that disables the question and leaves its answer as it is.
DependantLockKeepsAnswer(s, qid) ==
    [s EXCEPT !.q[qid].disabled = TRUE,
              !.q[qid].locks = IF @ < MaxLocks THEN @ + 1 ELSE @,
              !.log = Append(@, [op |-> "lock", qid |-> qid, was_locked |-> s.q[qid].disabled])]

\* lines 208-216
ForDependants(s, qid, answer, i) ==
    IF i > Len(s.q[qid].dependants) THEN s
    ELSE LET question == s.q[qid].dependants[i]
         IN  Bind(IF ConditionMet(answer, s.q[question].unlock_condition) /\ ~Disabled(s, qid)
                  THEN DependantUnlock(s, question)
                  ELSE DependantLock(s, question),
                  LAMBDA s1 : ForDependants(s1, qid, answer, i + 1))

\* Question.dependant_lock (lines 249-257), after ButtonQuestion.dependant_lock
\* (lines 386-391) for a question with buttons
DependantLock(s, qid) ==
    LET Q == s.q[qid]
        to_store == s.answers[qid]
    IN  Bind([s EXCEPT !.q[qid].choice_temp = IF IsButton(Q.type) /\ @.none THEN Q.choices ELSE @,
                       !.q[qid].choices = IF IsButton(Q.type) THEN None ELSE @,
                       !.q[qid].answer_temp = IF @ = EmptyStr
                                              THEN (IF to_store = NA THEN EmptyStr ELSE to_store)
                                              ELSE @,
                       !.q[qid].pre_lock = IF Q.disabled THEN @ ELSE to_store,
                       !.q[qid].locks = IF @ < MaxLocks THEN @ + 1 ELSE @], LAMBDA s1 :
        Bind(ChangeAnswer(s1, qid, NA), LAMBDA s2 :
            [s2 EXCEPT !.q[qid].disabled = TRUE,
                       !.log = Append(@, [op |-> "lock", qid |-> qid, was_locked |-> Q.disabled])]))

\* lines 411-415: select_choice for every button of choice_temp
ReplayChoices(s, qid, choice_temp, i) ==
    IF i > Len(choice_temp) THEN s
    ELSE Bind(SelectChoice(s, qid, choice_temp[i]),
              LAMBDA s1 : ReplayChoices(s1, qid, choice_temp, i + 1))

\* ButtonQuestion.dependant_unlock (lines 405-418)
ButtonUnlock(s, qid) ==
    LET Q == s.q[qid]
    IN  Bind([s EXCEPT !.q[qid].choices = List(<<>>)], LAMBDA s1 :
        Bind(IF Q.choice_temp.none THEN s1 ELSE ReplayChoices(s1, qid, Q.choice_temp.list, 1),
             LAMBDA s2 : [s2 EXCEPT !.q[qid].choice_temp = None]))

\* Question.dependant_unlock (lines 264-268), after ButtonQuestion.dependant_unlock
\* for a question with buttons
DependantUnlock(s, qid) ==
    LET Q == s.q[qid]
    IN  Bind(IF IsButton(Q.type) THEN ButtonUnlock(s, qid) ELSE s, LAMBDA s0 :
        Bind([s0 EXCEPT !.q[qid].disabled = FALSE], LAMBDA s1 :
        Bind(ChangeAnswer(s1, qid, s1.q[qid].answer_temp), LAMBDA s2 :
            [s2 EXCEPT !.q[qid].answer_temp = EmptyStr,
                       !.q[qid].locks = 0,
                       !.log = Append(@, [op |-> "unlock", qid |-> qid, was_locked |-> Q.disabled,
                                          locks |-> Q.locks, type |-> Q.type,
                                          pre |-> Q.pre_lock, post |-> s2.answers[qid],
                                          disabled |-> s2.q[qid].disabled])])))

\* ButtonQuestion.select_choice (lines 359-379)
SelectChoice(s, qid, choice) ==
    LET Q == s.q[qid]
        cur == Q.choices.list
        new == IF choice \in Range(cur)
               THEN SelectSeq(cur, LAMBDA c : c # choice)
               ELSE Append(IF Q.multi THEN cur ELSE <<>>, choice)
    IN  Bind([s EXCEPT !.q[qid].choices = List(new)], LAMBDA s1 : ChangeAnswer(s1, qid, Join(new)))

\* Question.set_unlock (lines 225-231); s.status reports the KeyError of line 229
SetUnlock(s, qid) ==
    LET Q == s.q[qid]
        unlocked_by_id == Q.part_audio \o Zfill2(Q.unlocked_by)
    IN  IF ~Q.has_unlock_condition \/ s.status # "ok" THEN s
        ELSE IF unlocked_by_id \notin DOMAIN s.q THEN [s EXCEPT !.status = "KeyError"]
        ELSE Bind([s EXCEPT !.q[unlocked_by_id].dependants = Append(@, qid)],
                  LAMBDA s1 : DependantLock(s1, qid))

RECURSIVE SetUnlocks(_, _)
SetUnlocks(s, i) ==
    IF i > Len(s.order) THEN s
    ELSE Bind(SetUnlock(s, s.order[i]), LAMBDA s1 : SetUnlocks(s1, i + 1))

\* QuestionScreen.on_pre_enter (screens.py lines 380-386)
OnPreEnter(s) ==
    Bind(SetUnlocks(s, 1), LAMBDA s1 : IF s1.status # "ok" THEN s1 ELSE UnlockCheck(s1))

(***************************************************************************)
(* PalilaAnswers (file_system.py lines 626-690).                           *)
(***************************************************************************)
Pad2(n) == <<ToString(n \div 10), ToString(n % 10)>>

\* datetime.now().strftime('%y%m%d-%H%M') at minute t of the day of the run
Strftime(t) == <<"2", "6", "1", "1", "0", "5", "-">> \o Pad2(t \div 60) \o Pad2(t % 60)

NoPid == <<"None">>

\* str(time.time()) and str(time.time() - start)
TimeStr(t) == <<"t", ToString(t)>>

\* PalilaAnswers.__init__ at time t
PalilaAnswers(E, t) ==
    LET columns == Append(E.question_id_list, "timer")
    IN  [pid_mode |-> E.pid_mode,
         columns |-> columns,
         out |-> [c \in Range(columns) |-> EmptyStr],
         pid |-> IF E.pid_mode = "auto" THEN Strftime(t) ELSE NoPid,
         has_out_path |-> (E.pid_mode = "auto"),
         out_path |-> IF E.pid_mode = "auto" THEN Strftime(t) ELSE NoPid,
         timing |-> FALSE, start |-> 0,
         saved |-> 0, file |-> <<>>]

\* PalilaAnswers.set_pid
AnswersSetPid(a, pid) == [a EXCEPT !.pid = pid, !.has_out_path = TRUE, !.out_path = pid]

\* A set_pid that takes the literal in every mode.
SetPidLiteral(a, pid, t) == AnswersSetPid(a, pid)

\* PalilaScreenManager.set_pid (__init__.py lines 177-182) at time t; a mode
\* other than 'auto' and 'input' does not get this far (WelcomeScreen.__init__
\* raises on it)
SetPid(a, pid, t) ==
    IF a.pid_mode = "auto" THEN AnswersSetPid(a, Strftime(t))
    ELSE AnswersSetPid(a, pid)

\* A store_answer that keeps the value a column already has.
StoreAnswerOnce(a, key, value) ==
    [a EXCEPT !.out = IF Has(@, key) /\ @[key] # EmptyStr THEN @ ELSE Put(@, key, value)]

\* PalilaScreenManager.store_answer (__init__.py line 195)
StoreAnswer(a, key, value) == [a EXCEPT !.out = Put(@, key, value)]

\* PalilaAnswers.start_timer at time t
StartTimer(a, t) ==
    IF ~a.timing THEN [StoreAnswer(a, "timer", TimeStr(t)) EXCEPT !.timing = TRUE, !.start = t]
    ELSE a

\* A stop_timer that leaves the start time in the column.
StopTimerKeepsStart(a, t) ==
    IF a.out["timer"] = EmptyStr THEN a
    ELSE IF a.timing
         THEN [a EXCEPT !.timing = FALSE]
    ELSE a

\* PalilaAnswers.stop_timer at time t
StopTimer(a, t) ==
    IF a.out["timer"] = EmptyStr THEN a
    ELSE IF a.timing
         THEN [StoreAnswer(a, "timer", TimeStr(t - a.start)) EXCEPT !.timing = FALSE, !.start = t - a.start]
    ELSE a

\* A save_to_file that writes nothing.
SaveToFileSkipped(a) == a

\* PalilaAnswers.save_to_file
SaveToFile(a) == [a EXCEPT !.saved = @ + 1, !.file = <<a.out>>]

(***************************************************************************)
(* The screens at run time.                                                *)
(***************************************************************************)
\* the keys of a dict built by assigning the elements of a list in order
RECURSIVE Dedupe(_)
Dedupe(l) ==
    IF l = <<>> THEN <<>>
    ELSE Bind(Dedupe(SubSeq(l, 1, Len(l) - 1)),
              LAMBDA d : IF l[Len(l)] \in Range(d) THEN d ELSE Append(d, l[Len(l)]))

\* Question.__init__ / ButtonQuestion.__init__ for the question dict o
NewQuestion(o) ==
    [type |-> o.type, multi |-> o.multi, part_audio |-> o.part_audio,
     has_unlock_condition |-> o.has_unlocked_by, unlock_condition |-> o.cond,
     unlocked_by |-> o.unlocked_by, buttons |-> o.choices,
     disabled |-> FALSE, answer_temp |-> EmptyStr, dependants |-> <<>>,
     choices |-> List(<<>>), choice_temp |-> None, pre_lock |-> EmptyStr, locks |-> 0]

\* AudioQuestionScreen.__init__ (audio_screen.py lines 71-99) with
\* QuestionScreen.__init__ (screens.py lines 331-356) and add_question
NewAudioScreen(E, sc) ==
    LET A == E.part[sc.part].audio[sc.key]
        dict(qid) == E.heap[A.refs[CHOOSE i \in DOMAIN A.refs :
                            /\ E.heap[A.refs[i]].qid = qid
                            /\ \A j \in (i + 1)..Len(A.refs) : E.heap[A.refs[j]].qid # qid]]
        ids == Range(sc.questions)
    IN  [status |-> "ok",
         demo |-> FALSE,
         order |-> Dedupe(sc.questions),
         answers |-> [id \in ids |-> IF dict(id).type = "Text" THEN NA ELSE EmptyStr],
         q |-> [id \in ids |-> NewQuestion(dict(id))],
         disabled |-> TRUE, cont |-> FALSE, state_override |-> sc.state_override,
         n_max |-> A.max_replays, part_audio |-> A.part_audio,
         count_left |-> 0, count_right |-> 0, right_active |-> A.has_file2,
         audio_playing |-> "none", log |-> <<>>]

\* Continue buttons that no screen locks when it is built.
InitialContinueUnlocked(E, sc) == TRUE

\* the continue button of the other screens after their __init__
InitialContinue(E, sc) ==
    CASE sc.kind = "welcome" -> E.pid_mode = "auto"
      [] sc.kind = "questionnaire" -> sc.state_override
      [] sc.kind = "end" -> TRUE
      [] OTHER -> FALSE

AudioNames(scr) == {scr[i].name : i \in {j \in DOMAIN scr : scr[j].kind = "audio"}}

\* the continue button of a screen
ContinueEnabled(scr, q, u, name) == IF name \in AudioNames(scr) THEN q[name].cont ELSE u.cont[name]

\* an int put where the other columns hold strings (audio_screen.py line 121)
PyInt(n) == <<"int", ToString(n)>>

\* An on_pre_leave that stores no answer.
StoreAnswersNone(a, s, i) == a

\* QuestionScreen.on_pre_leave (screens.py lines 377-378)
RECURSIVE StoreAnswers(_, _, _)
StoreAnswers(a, s, i) ==
    IF i > Len(s.order) THEN a
    ELSE Bind(StoreAnswer(a, s.order[i], s.answers[s.order[i]]),
              LAMBDA a1 : StoreAnswers(a1, s, i + 1))

\* An on_pre_leave that stores the answers of a screen in demo mode too.
AudioOnPreLeaveInDemo(a, s) ==
    Bind(StoreAnswers(a, s, 1), LAMBDA a1 :
        IF s.n_max > 1
        THEN IF s.right_active
             THEN Bind(StoreAnswer(a1, s.part_audio \o "-replays-left", <<ToString(s.count_left)>>),
                       LAMBDA a2 : StoreAnswer(a2, s.part_audio \o "-replays-right",
                                               <<ToString(s.count_right)>>))
             ELSE StoreAnswer(a1, s.part_audio \o "-replays", PyInt(s.count_left))
        ELSE a1)

\* AudioQuestionScreen.on_pre_leave (audio_screen.py lines 102-121); the
\* screens of the parts are built with demo = False (line 74)
AudioOnPreLeave(a, s) ==
    IF s.demo THEN a
    ELSE Bind(StoreAnswers(a, s, 1), LAMBDA a1 :
            IF s.n_max > 1
            THEN IF s.right_active
                 THEN Bind(StoreAnswer(a1, s.part_audio \o "-replays-left", <<ToString(s.count_left)>>),
                           LAMBDA a2 : StoreAnswer(a2, s.part_audio \o "-replays-right",
                                                   <<ToString(s.count_right)>>))
                 ELSE StoreAnswer(a1, s.part_audio \o "-replays", PyInt(s.count_left))
            ELSE a1)

(***************************************************************************)
(* The configurations the model is run on.                                 *)
(***************************************************************************)
MC(id, texts) == [Question(id, "MultipleChoice") EXCEPT !.choices = texts]

UnlockedBy(q, by, cond) ==
    [q EXCEPT !.has_unlocked_by = TRUE, !.unlocked_by = by, !.has_cond = TRUE, !.cond = cond]

AB == << <<"a">>, <<"b">> >>

\* the dependent questions tried: one per question class, and one whose
\* controller does not exist
Dependents ==
    {UnlockedBy(MC("2", AB), "1", <<"a">>),
     UnlockedBy([MC("2", AB) EXCEPT !.has_multi = TRUE, !.multi = TRUE], "1", <<"a", ";", "b">>),
     UnlockedBy([Question("2", "Spinner") EXCEPT !.choices = AB], "1", <<"a">>),
     UnlockedBy(Question("2", "Text"), "1", <<"a">>)}

Questionnaire(n) ==
    [present |-> TRUE, has_manual |-> FALSE, manual |-> FALSE,
     questions |-> [i \in 1..n |-> MC(ToString(i), AB)]]

\* every question of the questionnaire on the screen of the given number
ManualQuestionnaire(n, screen) ==
    [present |-> TRUE, has_manual |-> TRUE, manual |-> TRUE,
     questions |-> [i \in 1..n |-> [MC(ToString(i), AB) EXCEPT !.has_manual_screen = TRUE,
                                                                !.manual_screen = screen[i]]]]

PlainAudios(n) == [i \in 1..n |-> Audio(ToString(i - 1), <<>>)]

\* one part with one audio and a controller with one dependent question, and
\* the same followed by a second audio
DependencyConfigs ==
    {Config(<<Part("1", <<Audio("0", <<MC("1", AB), d>>)>>)>>) : d \in Dependents}
    \cup {[Config(<<Part("1", <<Audio("0", <<MC("1", AB)>>)>>)>>) EXCEPT !.override = o] : o \in BOOLEAN}
    \cup {Config(<<Part("1", <<Audio("0", <<MC("1", AB), UnlockedBy(MC("2", AB), "1", <<"a">>)>>),
                                Audio("1", <<>>)>>)>>)}
    \cup {Config(<<Part("1", <<Audio("0", <<[MC("1", AB) EXCEPT !.has_multi = TRUE, !.multi = TRUE],
                                            UnlockedBy(MC("2", AB), "1", c)>>)>>)>>) :
              c \in {<<"b">>, <<"b", ";", "c">>}}

\* one audio whose questions are a chain: each one is unlocked by the one before
\* it, the last one by the answer 'n/a' of a locked question
ChainConfigs ==
    {Config(<<Part("1", <<Audio("0",
        [i \in 1..MaxChain |->
            IF i = 1 THEN MC("1", AB)
            ELSE UnlockedBy(MC(ToString(i), AB), ToString(i - 1),
                            IF i = MaxChain THEN NA ELSE <<"a">>)])>>)>>)}

\* parts with breaks, with and without a questionnaire at their end
BreakConfigs ==
    {Config(<<[Part("1", PlainAudios(n)) EXCEPT !.breaks = [present |-> TRUE, interval |-> k],
                                               !.questionnaire = qn]>>) :
        n \in 1..MaxAudios, k \in {-1, 0, 1, 2}, qn \in {NoQuestionnaire, Questionnaire(0), Questionnaire(1)}}

\* the questionnaire at the start: split by the program and split by hand
QuestionnaireConfigs ==
    {[Config(<<Part("1", PlainAudios(1))>>) EXCEPT !.has_questionnaire = TRUE, !.questionnaire = qn] :
        qn \in {Questionnaire(n) : n \in {1, QuestionsPerScreen, MaxRootQuestions}}
               \cup {ManualQuestionnaire(MaxRootQuestions, [i \in 1..MaxRootQuestions |-> 1]),
                     ManualQuestionnaire(2, <<10, 2>>)}}

\* repeated audios, questions of the part, shuffles
RepeatConfigs ==
    {Config(<<[Part("1", <<[Audio("0", [i \in 1..nq |-> MC(ToString(i), AB)])
                               EXCEPT !.has_repeat = TRUE, !.repeat = r]>>
                            \o [i \in 1..n |-> Audio(ToString(i), <<>>)])
                 EXCEPT !.randomise = rnd, !.has_questions = pq,
                        !.questions = IF pq THEN <<MC("1", AB)>> ELSE <<>>]>>) :
        nq \in 0..MaxAudioQuestions, r \in 1..MaxRepeat, n \in 0..(MaxAudios - 1),
        rnd \in BOOLEAN, pq \in BOOLEAN}
    \cup {[Config([i \in 1..MaxParts |-> Part(ToString(i), PlainAudios(1))]) EXCEPT !.randomise = TRUE]}

\* the participant id typed in, replays, and the configurations that stop the start
OtherConfigs ==
    {[Config(<<Part("1", PlainAudios(1))>>) EXCEPT !.pid_mode = m] : m \in {"input", "manual"}}
    \cup {Config(<<Part("1", <<[Audio("0", <<MC("1", AB)>>) EXCEPT !.has_max_replays = TRUE,
                                   !.max_replays = 2, !.has_file2 = f]>>)>>) : f \in BOOLEAN}
    \cup {[Config(<<Part("1", PlainAudios(1))>>) EXCEPT !.demo = TRUE],
          Config(<<Part("1", <<Audio("0", <<MC("1", AB), Question("2", "Text")>>)>>)>>),
          Config(<<>>),
          Config(<<Part("1", <<>>)>>),
          Config(<<Part("1", <<[Audio("0", <<MC("1", AB)>>) EXCEPT !.has_repeat = TRUE, !.repeat = 0]>>)>>),
          Config(<<Part("1", PlainAudios(1)),
                   [Part("2", <<[Audio("0", <<>>) EXCEPT !.has_repeat = TRUE, !.repeat = 0]>>)
                       EXCEPT !.has_intro = TRUE]>>),
          Config(<<Part("1", <<[Audio("0", <<>>) EXCEPT !.file_exists = FALSE]>>)>>),
          Config(<<Part("1", <<[Audio("0", <<>>) EXCEPT !.has_file2 = TRUE, !.file2_exists = FALSE]>>)>>),
          Config(<<Part("1", <<[Audio("0", <<>>) EXCEPT !.has_file2 = TRUE, !.file2_exists = FALSE,
                                                       !.file2_loader = FALSE]>>)>>),
          Config(<<Part("1", <<Audio("0", <<MC("1", AB),
                    [Question("2", "Text") EXCEPT !.has_unlocked_by = TRUE, !.unlocked_by = "1"]>>)>>)>>),
          Config(<<Part("1", <<Audio("0", <<UnlockedBy(MC("2", AB), "1", <<"a">>)>>)>>)>>),
          [Config(<<Part("1", PlainAudios(1))>>) EXCEPT
              !.has_questionnaire = TRUE,
              !.questionnaire.present = TRUE,
              !.questionnaire.questions = <<MC("1", AB), UnlockedBy(MC("2", AB), "1", <<"a">>)>>],
          [Config(<<Part("1", PlainAudios(1))>>) EXCEPT
              !.has_questionnaire = TRUE,
              !.questionnaire.present = TRUE,
              !.questionnaire.questions =
                  <<MC("1", AB), [Question("2", "Text") EXCEPT !.has_unlocked_by = TRUE, !.unlocked_by = "1"]>>],
          Config(<<[Part("1", PlainAudios(1)) EXCEPT
                      !.questionnaire = ManualQuestionnaire(1, <<1>>)]>>)}

Configs == DependencyConfigs \cup ChainConfigs \cup BreakConfigs \cup QuestionnaireConfigs \cup RepeatConfigs
           \cup OtherConfigs

\* what is typed into the participant id box
PidTexts == {EmptyStr, <<"P", "7">>}

(***************************************************************************)
(* The program as a state machine.                                         *)
(***************************************************************************)
NoExperiment == [status |-> "none"]

NoAnswers == [pid_mode |-> "none"]

\* backs counts the direct calls of navigate_previous
NoUi == [cont |-> <<>>, pid_text |-> EmptyStr, pid_disabled |-> FALSE, pending |-> {}, started |-> {},
         backs |-> 0]

Init ==
    /\ cfg \in Configs
    /\ phase = "load"
    /\ exp = NoExperiment
    /\ screens = <<>>
    /\ current = ""
    /\ qm = <<>>
    /\ ui = NoUi
    /\ store = NoAnswers
    /\ clock = 0
    /\ ghost = <<>>

\* the outcomes random.shuffle can have on a list of n elements
Shuffles(randomise, n) == IF randomise THEN Perms(n) ELSE {IdPerm(n)}

\* one outcome per part, as a function of the part's name
RECURSIVE PartShuffles(_, _)
PartShuffles(E, i) ==
    IF i > Len(E.parts) THEN {<<>>}
    ELSE LET P == E.part[E.parts[i]]
         IN  {Put(f, P.name, p) : f \in PartShuffles(E, i + 1),
                                  p \in Shuffles(P.randomise, Len(P.audios))}

\* PalilaApp.__init__ (__init__.py lines 217-221): the experiment and the answers
Prepare ==
    /\ phase = "load"
    /\ \E part_perm \in Shuffles(cfg.randomise, Len(cfg.parts)) :
       \E perms \in PartShuffles(Load(cfg), 1) :
       \E E \in {PalilaExperiment(cfg, part_perm, perms)} :
              /\ exp' = E
              /\ phase' = IF E.status = "ok" THEN "prepared" ELSE "error"
              /\ store' = IF E.status = "ok" THEN PalilaAnswers(E, clock) ELSE store
    /\ ghost' = <<>>
    /\ UNCHANGED <<cfg, screens, current, qm, ui, clock>>

\* Question.__init__ with the questionnaire screens left out: only the
\* questions of the audio screens are looked at.
QuestionInitFailsOnAudio(E, scr) ==
    \E i \in DOMAIN scr : /\ scr[i].kind = "audio"
                          /\ LET A == E.part[scr[i].part].audio[scr[i].key]
                             IN  \E r \in Range(A.refs) : E.heap[r].has_unlocked_by /\ ~E.heap[r].has_cond

\* Question.__init__ (questions.py lines 189-190) and
\* QuestionnaireQuestion.__init__ (questionnaire_questions.py lines 98-99), for
\* every question a screen adds when it is built: question_dict['unlock
\* condition'] raises KeyError for 'unlocked by' without 'unlock condition'
QuestionInitFails(E, scr) ==
    \E i \in DOMAIN scr :
        \/ /\ scr[i].kind = "audio"
           /\ LET A == E.part[scr[i].part].audio[scr[i].key]
              IN  \E r \in Range(A.refs) : E.heap[r].has_unlocked_by /\ ~E.heap[r].has_cond
        \/ /\ scr[i].kind = "questionnaire"
           /\ LET qd == IF scr[i].part = "main" THEN E.questionnaire
                        ELSE E.part[scr[i].part].questionnaire
              IN  \E k \in DOMAIN qd.q : /\ qd.q[k].qid \in Range(scr[i].questions)
                                         /\ qd.q[k].has_unlocked_by /\ ~qd.q[k].has_cond

\* PalilaApp.build (__init__.py lines 223-242): the manager and its screens
Build ==
    /\ phase = "prepared"
    /\ \E m \in {InitialiseScreens(exp)} :
       \E ok \in {/\ m.status = "ok"
                  /\ exp.pid_mode \in {"auto", "input"}
                  /\ ~QuestionInitFails(exp, m.screens)} :
           /\ phase' = IF ok THEN "running" ELSE "crashed"
           /\ screens' = IF ok THEN m.screens ELSE <<>>
           /\ current' = IF ok THEN m.current ELSE ""
           /\ qm' = IF ok
                    THEN [n \in AudioNames(m.screens) |-> NewAudioScreen(exp, GetScreen(m.screens, n))]
                    ELSE <<>>
           /\ ui' = IF ok
                    THEN [cont |-> [n \in ScreenNames(m.screens) \ AudioNames(m.screens) |->
                                       InitialContinue(exp, GetScreen(m.screens, n))],
                          pid_text |-> EmptyStr, pid_disabled |-> (exp.pid_mode = "auto"),
                          pending |-> {}, started |-> {}, backs |-> 0]
                    ELSE ui
    /\ ghost' = <<>>
    /\ UNCHANGED <<cfg, exp, store, clock>>

\* time passes
Tick ==
    /\ clock < MaxClock
    /\ clock' = clock + 1
    /\ ghost' = <<>>
    /\ UNCHANGED <<cfg, phase, exp, screens, current, qm, ui, store>>

\* A text entry that unlocks the continue button whatever the text is.
PidInputUnchecked(text) ==
    /\ phase = "running" /\ current = "welcome" /\ ~ui.pid_disabled
    /\ ui' = [ui EXCEPT !.pid_text = text, !.cont["welcome"] = TRUE]
    /\ ghost' = <<>>
    /\ UNCHANGED <<cfg, phase, exp, screens, current, qm, store, clock>>

\* text typed into the participant id box: WelcomeScreen.check_lock
PidInput(text) ==
    /\ phase = "running" /\ current = "welcome" /\ ~ui.pid_disabled
    /\ ui' = [ui EXCEPT !.pid_text = text, !.cont["welcome"] = (text # EmptyStr)]
    /\ ghost' = <<>>
    /\ UNCHANGED <<cfg, phase, exp, screens, current, qm, store, clock>>

\* an exception that nothing catches ends the program; log is the history so far
Crash(log) ==
    /\ phase' = "crashed"
    /\ ghost' = log

\* the hooks of a change of screen (on_pre_enter of the new screen, on_pre_leave
\* of the old one, on_enter of the new one), the answers being a at its start
\* log the history of the handler so far and u the buttons and timers
Transition(old, new, a, log, u) ==
    LET sc_new == GetScreen(screens, new)
        sc_old == GetScreen(screens, old)
        timed == sc_new.kind \in {"intro", "break"}
    IN  \* on_pre_enter
        \E entered \in {IF sc_new.kind = "audio" THEN OnPreEnter(qm[new]) ELSE [status |-> "ok"]} :
        \E qm1 \in {IF sc_new.kind = "audio" THEN [qm EXCEPT ![new] = [entered EXCEPT !.log = <<>>]]
                    ELSE qm} :
        \E ui1 \in {IF sc_new.kind = "questionnaire"
                    THEN [u EXCEPT !.cont[new] = sc_new.state_override] ELSE u} :
        \* on_pre_leave
        \E a1 \in {CASE sc_old.kind = "welcome" ->
                            IF ~u.pid_disabled THEN SetPid(a, u.pid_text, clock) ELSE a
                     [] sc_old.kind = "audio" -> AudioOnPreLeave(a, qm1[old])
                     [] OTHER -> a} :
        \* on_enter
        \E fails \in {\/ entered.status # "ok"
                      \/ timed /\ new \in u.started
                      \/ sc_new.kind = "final" /\ ~a1.has_out_path} :
            /\ current' = new
            /\ qm' = qm1
            /\ phase' = IF fails THEN "crashed" ELSE phase
            /\ ui' = IF timed /\ ~fails
                     THEN [ui1 EXCEPT !.started = @ \cup {new}, !.pending = @ \cup {new}] ELSE ui1
            /\ store' = IF sc_new.kind = "final" /\ ~fails THEN SaveToFile(a1) ELSE a1
            /\ ghost' = log
                         \o (IF sc_old.kind = "audio"
                             THEN <<[op |-> "leave", screen |-> old, before |-> a, after |-> a1]>>
                             ELSE <<>>)
                         \o (IF sc_new.kind = "audio" THEN entered.log ELSE <<>>)

\* ContinueButton.on_release: PalilaScreenManager.navigate_next (lines 149-158)
NavigateNext ==
    /\ phase = "running"
    /\ ContinueEnabled(screens, qm, ui, current)
    /\ \E next \in {GetScreen(screens, current).next_screen} :
       \E a \in {IF current = "welcome" THEN StartTimer(store, clock)
                 ELSE IF next = "final" THEN StopTimer(store, clock)
                 ELSE store} :
           IF HasScreen(screens, next)
           THEN /\ Transition(current, next, a, <<>>, ui)
                /\ UNCHANGED <<cfg, exp, screens, clock>>
           ELSE /\ Crash(<<>>)
                /\ store' = a
                /\ UNCHANGED <<cfg, exp, screens, current, qm, ui, clock>>

\* ProgressTracker.__init__ (tools.py lines 94-107): a division 'main' exists
\* when a screen name is 'main-' and a rest without a dash
HasMainDivision(scr) ==
    \E i \in DOMAIN scr : scr[i].part = "main" /\ scr[i].kind # "questionnaire"

\* A navigate_previous that makes the screen it goes to point on to the end screen.
NavigatePreviousRewiring(scr, u) ==
    \E previous \in {GetScreen(scr, current).previous_screen} :
    \E log \in {<<[op |-> "navigate_previous", from |-> current, previous |-> previous,
                   before |-> store]>>} :
        IF HasScreen(scr, previous)
        THEN /\ Transition(current, previous, store, log, u)
             /\ screens' = [scr EXCEPT ![ScreenIndex(scr, previous)].next_screen = "end"]
        ELSE /\ Crash(log)
             /\ screens' = scr
             /\ ui' = u
             /\ UNCHANGED <<current, qm, store>>

\* PalilaScreenManager.navigate_previous (lines 165-166), the screens being scr
\* and the buttons and timers u
NavigatePrevious(scr, u) ==
    \E previous \in {GetScreen(scr, current).previous_screen} :
    \E log \in {<<[op |-> "navigate_previous", from |-> current, previous |-> previous,
                   before |-> store]>>} :
        IF HasScreen(scr, previous)
        THEN /\ Transition(current, previous, store, log, u)
             /\ screens' = scr
        ELSE /\ Crash(log)
             /\ screens' = scr
             /\ ui' = u
             /\ UNCHANGED <<current, qm, store>>

\* the back button of the end screen: EndScreen.back_function (screens.py lines 230-240)
BackFunction ==
    /\ phase = "running"
    /\ current = "end"
    /\ LET previous == GetScreen(screens, current).previous_screen
       IN  IF HasScreen(screens, previous) /\ HasMainDivision(screens)
           THEN NavigatePrevious([screens EXCEPT ![ScreenIndex(screens, previous)].next_screen = "end"],
                                 ui)
           ELSE /\ Crash(<<>>)
                /\ UNCHANGED <<screens, current, qm, ui, store>>
    /\ UNCHANGED <<cfg, exp, clock>>

\* Clock.schedule_once(continue_bttn.unlock, timer.max) of a TimedTextScreen
TimerDone(name) ==
    /\ phase = "running"
    /\ name \in ui.pending
    /\ ui' = [ui EXCEPT !.pending = @ \ {name}, !.cont[name] = TRUE]
    /\ ghost' = <<>>
    /\ UNCHANGED <<cfg, phase, exp, screens, current, qm, store, clock>>

OnAudioScreen == phase = "running" /\ current \in DOMAIN qm

\* a handler of the current audio screen that ends in state s
Handler(end) ==
    \E s \in {end} :
    /\ qm' = [qm EXCEPT ![current] = [s EXCEPT !.log = <<>>]]
    /\ ghost' = s.log
    /\ UNCHANGED <<cfg, phase, exp, screens, current, ui, store, clock>>

\* the play button: AudioManager.play (audio_screen.py lines 200-219)
Play(side) ==
    /\ OnAudioScreen
    /\ LET s == qm[current]
           count == IF side = "left" THEN s.count_left ELSE s.count_right
       IN  /\ side = "right" => s.right_active
           /\ count < s.n_max /\ s.audio_playing = "none"
           /\ \E s1 \in {UnlockCheck([s EXCEPT !.audio_playing = side])} :
                  Handler(IF side = "left" THEN [s1 EXCEPT !.count_left = @ + 1]
                          ELSE [s1 EXCEPT !.count_right = @ + 1])

\* the end of the audio: AudioManager._done_playing (audio_screen.py lines 221-250)
DonePlaying ==
    /\ OnAudioScreen
    /\ qm[current].audio_playing # "none"
    /\ Handler(UnlockCheck([qm[current] EXCEPT !.audio_playing = "none"]))

\* a choice button released: ChoiceButton.on_release
Select(qid, choice) ==
    /\ OnAudioScreen
    /\ qid \in DOMAIN qm[current].q
    /\ IsButton(qm[current].q[qid].type)
    /\ ~Disabled(qm[current], qid)
    /\ choice \in Range(qm[current].q[qid].buttons)
    /\ Handler(SelectChoice(qm[current], qid, choice))

\* a value picked in the dropdown: SpinnerQuestion.spinner_input (line 295)
SpinnerInput(qid, value) ==
    /\ OnAudioScreen
    /\ qid \in DOMAIN qm[current].q
    /\ qm[current].q[qid].type = "Spinner"
    /\ ~Disabled(qm[current], qid)
    /\ value \in Range(qm[current].q[qid].buttons)
    /\ Handler(ChangeAnswer(qm[current], qid, value))

Qids == UNION {DOMAIN qm[n].q : n \in DOMAIN qm}

Texts == UNION {UNION {Range(qm[n].q[id].buttons) : id \in DOMAIN qm[n].q} : n \in DOMAIN qm}

Next ==
    \/ Prepare
    \/ Build
    \/ Tick
    \/ \E text \in PidTexts : PidInput(text)
    \/ NavigateNext
    \/ BackFunction
    \/ \E name \in ui.pending : TimerDone(name)
    \/ \E side \in {"left", "right"} : Play(side)
    \/ DonePlaying
    \/ \E qid \in Qids, choice \in Texts : Select(qid, choice)
    \/ \E qid \in Qids, value \in Texts : SpinnerInput(qid, value)

Spec == Init /\ [][Next]_vars


(***************************************************************************)
(* The methods of the manager called directly, by any caller.              *)
(***************************************************************************)
\* the literals a caller passes to set_pid; one has the pattern of a timestamp
PidLiterals == PidTexts \cup {<<"0", "0", "0", "0", "0", "0", "-", "0", "0", "0", "0">>}

\* manager.set_pid(pid)
SetPidCall(pid) ==
    /\ phase = "running"
    /\ store' = SetPid(store, pid, clock)
    /\ ghost' = <<[op |-> "set_pid", pid |-> pid, t |-> clock, mode |-> store.pid_mode,
                   before |-> store]>>
    /\ UNCHANGED <<cfg, phase, exp, screens, current, qm, ui, clock>>

NextSetPid ==
    \/ Prepare
    \/ Build
    \/ Tick
    \/ \E pid \in PidLiterals : SetPidCall(pid)

\* the start of the program, after which set_pid is called any number of times
SpecSetPid == Init /\ [][NextSetPid]_vars

\* manager.navigate_previous() on whatever screen is the current one
NavigatePreviousCall ==
    /\ phase = "running"
    /\ ui.backs < MaxBack
    /\ NavigatePrevious(screens, [ui EXCEPT !.backs = @ + 1])
    /\ UNCHANGED <<cfg, exp, clock>>

NextNavigate ==
    \/ Next
    \/ NavigatePreviousCall

\* the program, with navigate_previous called at any moment
SpecNavigate == Init /\ [][NextNavigate]_vars


(***************************************************************************)
(* The claims.                                                             *)
(***************************************************************************)
NamesDistinct(scr) == \A i, j \in DOMAIN scr : i # j => scr[i].name # scr[j].name

PointersResolve(scr) ==
    \A i \in DOMAIN scr :
        /\ scr[i].previous_screen # "" => HasScreen(scr, scr[i].previous_screen)
        /\ scr[i].next_screen # "" => HasScreen(scr, scr[i].next_screen)

\* C1: once the preparation and _initialise_screens have finished, the names of
\* the manager's screens are pairwise distinct and every non-empty
\* previous_screen / next_screen is the name of one of the manager's screens.
\* Refuted: the end screen's previous_screen is 'main-questionnaire 1', the
\* questionnaire screens are named '<part>-questionnaire-<n>'.
C1_NoDanglingPointers ==
    phase = "running" => NamesDistinct(screens) /\ PointersResolve(screens)

\* C2: a dependent question that is locked and later unlocked, nothing having
\* edited it in between, has its answer of before the lock again and is enabled.
\* Refuted by a Text question, whose answer 'n/a' comes back as ''.
C2_LockUnlockRestores ==
    \A i \in DOMAIN ghost :
        (ghost[i].op = "unlock" /\ ghost[i].was_locked)
            => (ghost[i].post = ghost[i].pre /\ ~ghost[i].disabled)

NoEmpty(answers) == \A id \in DOMAIN answers : answers[id] # EmptyStr

\* C3: get_state() is false whenever some entry of answers is '' and true
\* whenever none is, and change_answer finds it newly true exactly when it fills
\* the last empty entry, whatever the order of the answers.
C3_GetState ==
    /\ \A n \in DOMAIN qm : GetState(qm[n]) = NoEmpty(qm[n].answers)
    /\ \A i \in DOMAIN ghost :
          ghost[i].op = "change_answer" =>
              LET e == ghost[i]
                  empty == {id \in DOMAIN e.before : e.before[id] = EmptyStr}
              IN  /\ e.state = NoEmpty([e.before EXCEPT ![e.qid] = e.answer])
                  /\ (e.state /\ empty # {}) <=> (empty = {e.qid} /\ e.answer # EmptyStr)

\* C3 happens: of two questions the one shown first is answered last, and that
\* call finds the state true.
C3_Witness ==
    \E i \in DOMAIN ghost :
        /\ ghost[i].op = "change_answer"
        /\ ghost[i].state
        /\ Cardinality(DOMAIN ghost[i].before) >= 2
        /\ ghost[i].before[ghost[i].qid] = EmptyStr
        /\ \E n \in DOMAIN qm : ghost[i].qid \in DOMAIN qm[n].q /\ qm[n].order[1] = ghost[i].qid


\* the screens the manager holds for a part, in the order they were added
PartScreensOf(scr, part) == SelectSeq(scr, LAMBDA sc : sc.part = part)

KindsOf(scr) == [i \in DOMAIN scr |-> scr[i].kind]

\* n audio screens with a break after the i-th one when k divides i and i < n
RECURSIVE AudiosWithBreaks(_, _, _)
AudiosWithBreaks(n, k, i) ==
    IF i > n THEN <<>>
    ELSE <<"audio">> \o (IF i % k = 0 /\ i < n THEN <<"break">> ELSE <<>>)
                     \o AudiosWithBreaks(n, k, i + 1)

\* the kinds of the screens of a part of n audios with breaks every k audios and
\* a questionnaire of nq questions that the program splits
PartSequence(n, k, has_questionnaire, nq, closing_break) ==
    <<"intro">> \o AudiosWithBreaks(n, k, 1)
        \o (IF has_questionnaire
            THEN [i \in 1..((nq + QuestionsPerScreen - 1) \div QuestionsPerScreen) |-> "questionnaire"]
            ELSE <<>>)
        \o (IF closing_break THEN <<"break">> ELSE <<>>)

\* the parts of the configuration that have breaks at an interval k > 0
PartsWithBreaks(c) ==
    {i \in DOMAIN c.parts : c.parts[i].breaks.present /\ c.parts[i].breaks.interval > 0}

\* the screens of every such part are the sequence seq gives for it
BreaksAsIn(seq(_, _, _, _)) ==
    phase = "running" =>
        \A i \in PartsWithBreaks(cfg) :
            LET pc == cfg.parts[i]
                scr == PartScreensOf(screens, pc.name)
                breaks == SelectSeq(scr, LAMBDA sc : sc.kind = "break")
            IN  /\ KindsOf(scr) = seq(Len(exp.part[pc.name].audios), pc.breaks.interval,
                                      pc.questionnaire.present, Len(pc.questionnaire.questions))
                /\ \A j \in DOMAIN breaks : breaks[j].name = BreakName(pc.name, j)

ManualQuestionnaires(c) ==
    {qn \in {c.questionnaire} \cup {c.parts[i].questionnaire : i \in DOMAIN c.parts} :
        qn.present /\ qn.has_manual /\ qn.manual}

\* more questions than a screen has room for are put on one screen by hand
Overfull(c) ==
    \E qn \in ManualQuestionnaires(c) : \E n \in {qn.questions[i].manual_screen : i \in DOMAIN qn.questions} :
        Cardinality({i \in DOMAIN qn.questions : qn.questions[i].manual_screen = n}) > QuestionsPerScreen

\* C5: with 8 questions put on one screen of a questionnaire split by hand the
\* start fails with a configuration error before any screen is constructed.
\* Refuted: nothing counts the questions of a screen, the program runs with a
\* screen of 8 questions.
C5_OverfullScreenRejected ==
    Overfull(cfg) => (phase \in {"load", "error"} /\ screens = <<>>)


\* the declared audios that ask for copies: <<part, audio>> as positions in cfg
Repeated(c) ==
    {t \in UNION {{<<i, j>> : j \in DOMAIN c.parts[i].audios} : i \in DOMAIN c.parts} :
        c.parts[t[1]].audios[t[2]].has_repeat /\ c.parts[t[1]].audios[t[2]].repeat > 0}

\* the name of the screen of the ri-th copy: the suffixes are _01, _02, ...
CopyScreenName(pc, a, ri) ==
    pc.name \o "-" \o a.name \o "_" \o (IF ri < 10 THEN "0" ELSE "") \o ToString(ri)

\* every audio declared with repeat = N has N screens and none for the
\* template, every copy has count(part, audio) questions, and no id is on two
\* of the copies
RepeatYields(count(_, _)) ==
    phase = "running" =>
        \A t \in Repeated(cfg) :
            LET pc == cfg.parts[t[1]]
                a == pc.audios[t[2]]
                names == {CopyScreenName(pc, a, ri) : ri \in 1..a.repeat}
                copies == {i \in DOMAIN screens : screens[i].name \in names}
            IN  /\ Cardinality(names) = a.repeat
                /\ Cardinality(copies) = a.repeat
                /\ \A i \in copies : screens[i].kind = "audio"
                /\ ~HasScreen(screens, pc.name \o "-" \o a.name)
                /\ Len(SelectSeq(PartScreensOf(screens, pc.name), LAMBDA sc : sc.kind = "audio"))
                      = SeqSum([j \in DOMAIN pc.audios |->
                                  IF pc.audios[j].has_repeat THEN pc.audios[j].repeat ELSE 1])
                /\ \A i \in copies :
                      /\ Len(screens[i].questions) = count(pc, a)
                      /\ Len(qm[screens[i].name].order) = count(pc, a)
                /\ \A i, j \in copies :
                      i # j => Range(screens[i].questions) \cap Range(screens[j].questions) = {}

\* C6 as amended: an audio declared with repeat = N > 0 yields exactly N audio
\* screens (suffixes _01 ... _N) and none for the template; each copy carries
\* as many questions as the template, or as the part's own 'questions' section
\* when the part has one; the question ids of the copies are pairwise distinct.
C6_RepeatCopies ==
    RepeatYields(LAMBDA pc, a : IF pc.has_questions THEN Len(pc.questions) ELSE Len(a.questions))

\* C6 as stated: each copy carries as many questions as the template.
C6_RepeatAsStated == RepeatYields(LAMBDA pc, a : Len(a.questions))

\* C6 happens: two copies of a template with two questions, on their screens
C6_Witness ==
    /\ phase = "running"
    /\ \E t \in Repeated(cfg) :
          LET pc == cfg.parts[t[1]]
              a == pc.audios[t[2]]
          IN  /\ a.repeat = 2 /\ Len(a.questions) = 2 /\ ~pc.has_questions
              /\ \A ri \in 1..2 : /\ HasScreen(screens, CopyScreenName(pc, a, ri))
                                  /\ Len(GetScreen(screens, CopyScreenName(pc, a, ri)).questions) = 2

\* the audios met on the way from a screen along the next pointers, through
\* the breaks, up to the first screen that is neither
RECURSIVE Walk(_, _, _)
Walk(scr, name, fuel) ==
    IF fuel = 0 \/ ~HasScreen(scr, name) THEN <<>>
    ELSE LET sc == GetScreen(scr, name)
         IN  CASE sc.kind = "audio" -> <<sc.key>> \o Walk(scr, sc.next_screen, fuel - 1)
               [] sc.kind = "break" -> Walk(scr, sc.next_screen, fuel - 1)
               [] OTHER -> <<>>

WalkFromIntro(scr, part) == Walk(scr, GetScreen(scr, part \o "-intro").next_screen, Len(scr))

IsPermutation(a, b) == Len(a) = Len(b) /\ \E p \in Perms(Len(b)) : Permute(b, p) = a

\* C7: in a part that asks for randomisation the audio screens met along the
\* next pointers from the part's intro are the part's audios list as the one
\* shuffle left it, which is a permutation of the declared audios with their
\* copies.
C7_ShuffledOrder ==
    phase = "running" =>
        \A i \in DOMAIN cfg.parts :
            cfg.parts[i].randomise =>
                LET part == cfg.parts[i].name
                    walk == WalkFromIntro(screens, part)
                IN  /\ walk = exp.part[part].audios
                    /\ IsPermutation(walk, Load(cfg).part[part].audios)

\* C7 happens: the walk meets three audios in another order than the declared one
C7_Witness ==
    /\ phase = "running"
    /\ \E i \in DOMAIN cfg.parts :
          /\ cfg.parts[i].randomise
          /\ Len(WalkFromIntro(screens, cfg.parts[i].name)) = 3
          /\ WalkFromIntro(screens, cfg.parts[i].name) # Load(cfg).part[cfg.parts[i].name].audios


Digit(c) == c \in {"0", "1", "2", "3", "4", "5", "6", "7", "8", "9"}

\* yymmdd-HHMM: six digits, a dash, four digits
TimestampPattern(pid) ==
    /\ Len(pid) = 11
    /\ pid[7] = "-"
    /\ \A i \in (1..11) \ {7} : Digit(pid[i])

C9_BackLeavesStore ==
    \A i \in DOMAIN ghost :
        (ghost[i].op = "navigate_previous" /\ HasScreen(screens, ghost[i].previous)) =>
            (current = ghost[i].previous /\ store = ghost[i].before)

\* the columns of the replay counters of an audio screen (audio_screen.py lines 112-121)
ReplayColumns(s) ==
    IF s.n_max > 1
    THEN IF s.right_active THEN {s.part_audio \o "-replays-left", s.part_audio \o "-replays-right"}
         ELSE {s.part_audio \o "-replays"}
    ELSE {}

\* what is typed differs from every answer a screen can hold
Stale == <<"s", "t", "a", "l", "e">>

\* the answers a, every question of screen s holding a stale value
WithStale(a, s) ==
    [a EXCEPT !.out = [k \in DOMAIN @ |-> IF k \in DOMAIN s.answers THEN Stale ELSE @[k]]]

\* leaving screen s forwards with the answers a: every id of the screen gets
\* the aggregator's answer, the columns outside `also` keep theirs, and a second
\* flush changes nothing
FlushWrites(a, s, also) ==
    Bind(AudioOnPreLeave(a, s), LAMBDA after :
        /\ \A id \in DOMAIN s.answers : after.out[id] = s.answers[id]
        /\ \A k \in DOMAIN a.out \ (DOMAIN s.answers \cup also) : after.out[k] = a.out[k]
        /\ DOMAIN after.out = DOMAIN a.out
        /\ [after EXCEPT !.out = a.out] = a
        /\ AudioOnPreLeave(after, s) = after)

\* the flushes of a run, and the flush of the current screen over stale values
Flushes(also(_)) ==
    /\ \A i \in DOMAIN ghost :
          ghost[i].op = "leave" =>
              /\ ghost[i].after = AudioOnPreLeave(ghost[i].before, qm[ghost[i].screen])
              /\ FlushWrites(ghost[i].before, qm[ghost[i].screen], also(qm[ghost[i].screen]))
    /\ OnAudioScreen =>
          FlushWrites(WithStale(store, qm[current]), qm[current], also(qm[current]))

\* C10 as amended: leaving a question screen forwards writes the aggregator's
\* answer of every question of the screen into the answers, over any earlier
\* value, and changes no other entry but the screen's own replay counters;
\* flushing twice is flushing once.
C10_FlushOverwrites == Flushes(ReplayColumns)

\* C10 as stated: no entry but those of the screen's question ids changes.
C10_FlushAsStated == Flushes(LAMBDA s : {})

\* C10 happens: a screen with an answered question has been left forwards
C10_Witness ==
    \E i \in DOMAIN ghost :
        /\ ghost[i].op = "leave"
        /\ \E id \in DOMAIN qm[ghost[i].screen].answers :
              /\ qm[ghost[i].screen].answers[id] \notin {EmptyStr, NA}
              /\ ghost[i].after.out[id] = qm[ghost[i].screen].answers[id]
              /\ ghost[i].before.out[id] = EmptyStr


\* the answers have been written at most once, only with the final screen as the
\* current one, and the file holds the table as it is
SavedAtFinalOnly ==
    phase \in {"prepared", "running", "crashed"} =>
        /\ store.saved <= 1
        /\ store.saved = 1 => current = "final" /\ store.file = <<store.out>>
        /\ (phase = "running" /\ current = "final") => store.saved = 1

\* on the final screen no step changes the current screen, the answers or ends
\* the program
FinalIsTerminal ==
    (phase = "running" /\ current = "final") =>
        (current' = current /\ store' = store /\ phase' = phase)

\* C11: save_to_file runs once, when the final screen is entered and not before,
\* and after the final screen is entered nothing navigates and nothing changes
\* the answers.
C11_SavedOnceAtFinal == []SavedAtFinalOnly /\ [][FinalIsTerminal]_vars

\* C11 happens: the final screen has been entered and the answers are saved
C11_Witness == phase = "running" /\ current = "final" /\ store.saved = 1


\* a step of the running program keeps the participant id and the output path
\* once they are set
PidKept ==
    (phase = "running" /\ phase' = "running" /\ store.has_out_path) =>
        (store'.pid = store.pid /\ store'.out_path = store.out_path)

\* C12: once the participant id and the output path derived from it are set,
\* nothing that follows changes them, a second set_pid with another entry
\* included.  Refuted: set_pid assigns both again on every call.
C12_PidSetOnce == [][PidKept]_vars


\* after every unlock_check of a run the continue button is enabled exactly
\* when get_state() or the override holds and the screen's audio allows it; the
\* questionnaire screens, whose answers are all '' when they are built, have it
\* enabled exactly when their override is set
UnlockChecked(audio(_)) ==
    /\ \A i \in DOMAIN ghost :
          ghost[i].op = "unlock_check" =>
              (ghost[i].cont <=> ((ghost[i].state \/ ghost[i].override) /\ audio(ghost[i])))
    /\ phase = "running" =>
          \A i \in DOMAIN screens :
              screens[i].kind = "questionnaire" =>
                  (ui.cont[screens[i].name] <=> screens[i].state_override)

\* C13 as amended: after each unlock_check the continue button is enabled iff
\* get_state() or state_override holds and, on an audio screen, no audio is
\* playing and every active audio has been played once or the override is set.
C13_ContinueIffStateAndAudio ==
    UnlockChecked(LAMBDA e : (e.audio_state \/ e.override) /\ ~e.playing)

\* C13 as stated: get_state() or state_override, and no other condition.
C13_ContinueAsStated == UnlockChecked(LAMBDA e : TRUE)

\* C13 happens: an unlock_check without override finds every question answered
\* and enables the button, and one finds a question open and locks it
C13_Witness ==
    /\ \E i \in DOMAIN ghost :
          ghost[i].op = "unlock_check" /\ ghost[i].cont /\ ghost[i].state /\ ~ghost[i].override
    /\ \E i \in DOMAIN ghost :
          ghost[i].op = "unlock_check" /\ ~ghost[i].cont /\ ~ghost[i].state


\* a questionnaire screen that is followed by another screen of its questionnaire
NonLastSubScreen(scr, i) ==
    /\ scr[i].kind = "questionnaire"
    /\ \E j \in DOMAIN scr : j > i /\ scr[j].kind = "questionnaire" /\ scr[j].part = scr[i].part

\* C14: the state_override of a question screen is true exactly when the screen
\* is a questionnaire screen that is not the last of its questionnaire, or the
\* experiment's override flag is set.  Refuted: every screen is given the
\* experiment's flag and nothing else.
C14_OverrideOnNonLastScreens ==
    phase = "running" =>
        \A i \in DOMAIN screens :
            screens[i].kind \in {"audio", "questionnaire"} =>
                (screens[i].state_override <=> (exp.override \/ NonLastSubScreen(screens, i)))


\* the names of the screens with their previous and next
Pointers(scr) == [i \in DOMAIN scr |-> <<scr[i].name, scr[i].previous_screen, scr[i].next_screen>>]

\* a step of the running program leaves every screen's previous and next as they are
PointersKept == phase = "running" => Pointers(screens') = Pointers(screens)

NextChained(scr) ==
    /\ scr[1].name = "welcome"
    /\ \A i \in 1..(Len(scr) - 1) : scr[i].next_screen = scr[i + 1].name
    /\ scr[Len(scr)].name = "final"
    /\ scr[Len(scr) - 1].name = "end"

BuildsWithoutDemo(E) ==
    LET D == [E EXCEPT !.demo = FALSE]
        m == InitialiseScreens(D)
    IN  m.status = "ok" /\ E.pid_mode \in {"auto", "input"} /\ ~QuestionInitFails(D, m.screens)

DemoAfterWelcome(scr) ==
    /\ HasScreen(scr, "demo")
    /\ GetScreen(scr, "welcome").next_screen = "demo"
    /\ GetScreen(scr, "demo").previous_screen = "welcome"

C16_NavigationOrder ==
    /\ phase = "running" => NextChained(screens)
    /\ (phase = "running" /\ exp.demo) => DemoAfterWelcome(screens)
    /\ (phase = "crashed" /\ exp.demo) => ~BuildsWithoutDemo(exp)


(***************************************************************************)
(* The split of a questionnaire over its screens, as a function of the     *)
(* number of its questions: the program is started on a questionnaire of   *)
(* n questions, at the start or at the end of the one part.                *)
(***************************************************************************)
MaxSplitQuestions == 78

SplitConfigs ==
    {[Config(<<Part("1", PlainAudios(1))>>)
         EXCEPT !.has_questionnaire = TRUE, !.questionnaire = Questionnaire(n)] :
        n \in 0..MaxSplitQuestions}
    \cup {Config(<<[Part("1", PlainAudios(1)) EXCEPT !.questionnaire = Questionnaire(n)]>>) :
        n \in 0..MaxSplitQuestions}

InitSplit ==
    /\ cfg \in SplitConfigs
    /\ phase = "load"
    /\ exp = NoExperiment
    /\ screens = <<>>
    /\ current = ""
    /\ qm = <<>>
    /\ ui = NoUi
    /\ store = NoAnswers
    /\ clock = 0
    /\ ghost = <<>>

NextSplit ==
    \/ Prepare
    \/ Build
    \/ Tick

SpecSplit == InitSplit /\ [][NextSplit]_vars

\* the screens of the questionnaire of a part ('main' at the start), as compiled
QuestionnaireScreensOf(scr, part) ==
    SelectSeq(scr, LAMBDA s : s.kind = "questionnaire" /\ s.part = part)

\* the questionnaire screens are chained in the order they are compiled in
RunInOrder(qs, part) ==
    \A k \in DOMAIN qs :
        /\ qs[k].name = QuestionnaireScreenName(part, k)
        /\ k < Len(qs) => qs[k].next_screen = qs[k + 1].name

\* ceil(n / 7)
CeilDiv(n, d) == (n + d - 1) \div d

Min(a, b) == IF a < b THEN a ELSE b

\* the k-th screen holds the declared questions 7(k-1)+1 .. min(7k, n)
AutoSplit(qs, part_id, n) ==
    /\ Len(qs) = CeilDiv(n, QuestionsPerScreen)
    /\ \A k \in DOMAIN qs :
          LET first == QuestionsPerScreen * (k - 1) + 1
              last == Min(QuestionsPerScreen * k, n)
          IN  /\ Len(qs[k].questions) \in 1..QuestionsPerScreen
              /\ qs[k].questions =
                     [j \in 1..(last - first + 1) |-> QuestionnaireQid(part_id, ToString(first + j - 1))]

(***************************************************************************)
(* C17: in automatic split mode a questionnaire of n questions becomes     *)
(* ceil(n/7) screens of 1 to 7 questions each, and the k-th screen in      *)
(* navigation order holds the declared questions 7(k-1)+1 .. min(7k, n) in *)
(* declared order, for every n.                                            *)
(***************************************************************************)
C17_AutoSplit ==
    phase = "running" =>
        /\ ~ManualSplit(cfg.questionnaire) =>
              /\ RunInOrder(QuestionnaireScreensOf(screens, "main"), "main")
              /\ AutoSplit(QuestionnaireScreensOf(screens, "main"), "main",
                           Len(cfg.questionnaire.questions))
        /\ \A i \in DOMAIN cfg.parts :
              ~ManualSplit(cfg.parts[i].questionnaire) =>
                  /\ RunInOrder(QuestionnaireScreensOf(screens, cfg.parts[i].name), cfg.parts[i].name)
                  /\ AutoSplit(QuestionnaireScreensOf(screens, cfg.parts[i].name), cfg.parts[i].id,
                               Len(cfg.parts[i].questionnaire.questions))


\* the configuration with every questionnaire split by the program
SplitByProgram(c) ==
    [c EXCEPT !.questionnaire.manual = FALSE,
              !.parts = [i \in DOMAIN c.parts |-> [c.parts[i] EXCEPT !.questionnaire.manual = FALSE]]]

\* every question of a questionnaire split by hand names its screen
ScreensDeclared(c) ==
    \A qn \in ManualQuestionnaires(c) : \A i \in DOMAIN qn.questions : qn.questions[i].has_manual_screen

\* each question is in the bucket of the screen it names
PlacedAsDeclared(qn, qd) ==
    \A i \in DOMAIN qn.questions :
        /\ Has(qd.screen_dict, qn.questions[i].manual_screen)
        /\ qd.q[i].name \in Range(qd.screen_dict[qn.questions[i].manual_screen])

(***************************************************************************)
(* C18: a questionnaire split by hand, at the start or at the end of a     *)
(* part, in which every question names a numeric screen and no screen gets *)
(* more than 7 questions, compiles, and each question is placed in the     *)
(* bucket of the screen it names.                                          *)
(***************************************************************************)
C18_ManualSplitPlaced ==
    (/\ phase # "load"
     /\ ManualQuestionnaires(cfg) # {}
     /\ ScreensDeclared(cfg) /\ ~Overfull(cfg)
     /\ VerifyExperiment(Load(SplitByProgram(cfg))) = "ok") =>
        /\ phase # "error"
        /\ ManualSplit(cfg.questionnaire) => PlacedAsDeclared(cfg.questionnaire, exp.questionnaire)
        /\ \A i \in DOMAIN cfg.parts :
              ManualSplit(cfg.parts[i].questionnaire) =>
                  PlacedAsDeclared(cfg.parts[i].questionnaire, exp.part[cfg.parts[i].name].questionnaire)


\* an audio of the configuration refers to a file that is not on disk
MissingPrimary(c) ==
    \E i \in DOMAIN c.parts : \E j \in DOMAIN c.parts[i].audios :
        c.parts[i].audios[j].has_filename /\ ~c.parts[i].audios[j].file_exists

MissingSecond(c) ==
    \E i \in DOMAIN c.parts : \E j \in DOMAIN c.parts[i].audios :
        c.parts[i].audios[j].has_file2 /\ ~c.parts[i].audios[j].file2_exists

\* the start has not got to a screen
NothingPresented == phase \in {"load", "prepared", "error", "crashed"} /\ screens = <<>> /\ current = ""

(***************************************************************************)
(* C19: when an audio file an audio refers to is not on disk, be it the    *)
(* file of filename or the file of filename_2, the start fails with an     *)
(* error and no screen is presented.                                       *)
(***************************************************************************)
C19_MissingAudioFileStops ==
    (MissingPrimary(cfg) \/ MissingSecond(cfg)) => NothingPresented


\* 'unlocked by' without 'unlock condition'
Bare(q) == q.has_unlocked_by /\ ~q.has_cond

\* a question the preparation keeps declares a dependency without a condition:
\* a question of a questionnaire, a question of a part, or a question of an
\* audio of a part that has no questions of its own (those of the part
\* replace the audio's)
BareDependency(c) ==
    \/ \E k \in DOMAIN c.questionnaire.questions : Bare(c.questionnaire.questions[k])
    \/ \E i \in DOMAIN c.parts :
          \/ \E k \in DOMAIN c.parts[i].questionnaire.questions : Bare(c.parts[i].questionnaire.questions[k])
          \/ c.parts[i].has_questions /\ \E k \in DOMAIN c.parts[i].questions : Bare(c.parts[i].questions[k])
          \/ ~c.parts[i].has_questions /\ \E j \in DOMAIN c.parts[i].audios :
                \E k \in DOMAIN c.parts[i].audios[j].questions : Bare(c.parts[i].audios[j].questions[k])

(***************************************************************************)
(* C20: a question that declares a dependency ('unlocked by') without a    *)
(* condition ('unlock condition') makes the start fail before the first    *)
(* screen is presented: the program never runs with such a question, so no *)
(* condition is assumed for it and nothing fails in the session.           *)
(***************************************************************************)
C20_BareDependencyStopsStart ==
    BareDependency(cfg) =>
        /\ phase # "running"
        /\ screens = <<>> /\ current = "" /\ qm = <<>>
        /\ phase = "crashed" => exp.status = "ok"

\* C20 happens: the preparation passes and the build of the screens fails, for
\* a question of a questionnaire
C20_Witness ==
    /\ phase = "crashed" /\ screens = <<>>
    /\ exp.status = "ok"
    /\ \E k \in DOMAIN cfg.questionnaire.questions : Bare(cfg.questionnaire.questions[k])


\* a part of the configuration stands for no audio once the repeats are expanded
PartWithoutAudios(c) ==
    \E i \in DOMAIN c.parts :
        \A j \in DOMAIN c.parts[i].audios :
            c.parts[i].audios[j].has_repeat /\ c.parts[i].audios[j].repeat < 1

(***************************************************************************)
(* C21: a configuration in which some part has no audio after the          *)
(* expansion of the repeats (a part whose only audio has repeat = 0        *)
(* included) fails with an error in PalilaExperiment: the tree is left as  *)
(* loaded, without a previous/next name and without a question id, and no  *)
(* screen is built.                                                        *)
(***************************************************************************)
C21_PartWithoutAudiosStops ==
    PartWithoutAudios(cfg) =>
        /\ phase \in {"load", "error"}
        /\ screens = <<>> /\ current = "" /\ qm = <<>>
        /\ phase = "error" =>
              /\ exp = [Load(cfg) EXCEPT !.status = "SyntaxError"]
              /\ exp.question_id_list = <<>>
              /\ exp.questionnaire.link = Link
              /\ \A n \in Range(exp.parts) : DOMAIN exp.part[n].links = {}

\* C21 happens: the start has failed on a part whose only audio has repeat = 0,
\* beside a part that has an audio
C21_Witness ==
    /\ phase = "error"
    /\ \E i \in DOMAIN cfg.parts : cfg.parts[i].audios # <<>> /\ ~PartWithoutAudios([cfg EXCEPT !.parts = <<cfg.parts[i]>>])
    /\ \E i \in DOMAIN cfg.parts :
          /\ cfg.parts[i].audios # <<>>
          /\ \A j \in DOMAIN cfg.parts[i].audios :
                cfg.parts[i].audios[j].has_repeat /\ cfg.parts[i].audios[j].repeat = 0


\* the columns of the answer table: the compiled question ids and 'timer'
CompiledColumns == Range(exp.question_id_list) \cup {"timer"}

\* the demo screen: an AudioQuestionScreen built with demo = True, whose one
\* question has the id 'demo' (demo_dict, audio_screen.py lines 61-69)
DemoScreenOf(s) ==
    [s EXCEPT !.demo = TRUE, !.order = <<"demo">>,
              !.answers = [id \in {"demo"} |-> <<"3">>], !.n_max = 1]

(***************************************************************************)
(* C22: the answer table has one column per compiled question id and the   *)
(* column 'timer', and the set of its columns never changes in a session:  *)
(* every key given to store_answer, for an answer or for a replay counter, *)
(* is a compiled question id; and leaving a screen in demo mode writes     *)
(* nothing.                                                                *)
(***************************************************************************)
C22_ColumnsFixed ==
    phase \in {"prepared", "running", "crashed"} =>
        /\ DOMAIN store.out = CompiledColumns
        /\ Cardinality(Range(exp.question_id_list)) = Len(exp.question_id_list)
        /\ "timer" \notin Range(exp.question_id_list)
        /\ \A n \in DOMAIN qm : AudioOnPreLeave(store, DemoScreenOf(qm[n])) = store

\* C22 happens: answers and a replay counter have been written, and the session
\* has got to its end
C22_Witness ==
    /\ phase = "running" /\ current = "final"
    /\ \E c \in DOMAIN store.out : c # "timer" /\ store.out[c] \notin {EmptyStr, NA}
    /\ \E n \in DOMAIN qm : /\ qm[n].n_max > 1
                             /\ Has(store.out, qm[n].part_audio \o "-replays")
                             /\ store.out[qm[n].part_audio \o "-replays"] # EmptyStr


\* one step of the running program, as the timer sees it
TimerStep ==
    phase = "running" =>
        \* started on leaving the welcome screen forwards, and only when it
        \* has never been started
        /\ (~store.timing /\ store'.timing) =>
              /\ current = "welcome"
              /\ store.out["timer"] = EmptyStr
              /\ store'.out["timer"] = TimeStr(clock)
        /\ (current = "welcome" /\ current' # "welcome") => store'.timing
        \* stopped on the way to the final screen, the column taking the time
        \* elapsed since the start
        /\ (store.timing /\ ~store'.timing) =>
              /\ GetScreen(screens, current).next_screen = "final"
              /\ store.out["timer"] = TimeStr(store.start)
              /\ store'.out["timer"] = TimeStr(clock - store.start)
        /\ (current # "final" /\ current' = "final") => ~store'.timing
        \* and untouched by every other step
        /\ (store'.timing = store.timing) => store'.out["timer"] = store.out["timer"]

\* what is written to the file
TimerSaved ==
    (phase \in {"running", "crashed"} /\ store.saved >= 1) =>
        /\ ~store.timing
        /\ store.file[1]["timer"] = store.out["timer"]
        /\ store.out["timer"] # EmptyStr

(***************************************************************************)
(* C23: the timer is started when the welcome screen is left forwards and  *)
(* stopped on the way to the final screen; it is started at most once in a *)
(* session, never stopped before it is started, and when the answers are   *)
(* saved it is not running and the column 'timer' holds the time elapsed,  *)
(* not the time of the start.                                              *)
(***************************************************************************)
C23_Timer == []TimerSaved /\ [][TimerStep]_vars

\* C23 happens: the answers are saved with a time elapsed that differs from the
\* time of the start
C23_Witness ==
    /\ phase = "running" /\ current = "final" /\ store.saved = 1
    /\ clock = MaxClock
    /\ store.out["timer"] = TimeStr(1)


(***************************************************************************)
(* The questions of a questionnaire screen after QuestionnaireScreen       *)
(* .__init__ (questionnaire_screen.py lines 247-280): add_question for     *)
(* every question of the screen (lines 258-259, 318-333), then             *)
(* set_dependant for every question (line 280), which acts on the key      *)
(* 'dependant' only, a key the configurations here do not use.  Nothing    *)
(* calls set_unlock of a QuestionnaireQuestion: on_pre_enter (lines        *)
(* 307-312) does the unlock check and no more.                             *)
(***************************************************************************)
QuestionnaireQuestions(E, sc) ==
    LET qd == IF sc.part = "main" THEN E.questionnaire ELSE E.part[sc.part].questionnaire
        dict(qid) == qd.q[CHOOSE k \in DOMAIN qd.q : qd.q[k].qid = qid]
    IN  [qid \in Range(sc.questions) |->
            [has_unlock_condition |-> dict(qid).has_unlocked_by,
             unlock_condition |-> dict(qid).cond,
             disabled |-> FALSE, answer |-> EmptyStr, answer_temp |-> EmptyStr,
             dependants |-> <<>>]]

\* a step that enters an audio screen for the first time: the screen is as built
FirstEntry ==
    /\ phase = "running" /\ phase' = "running"
    /\ current' # current /\ current' \in DOMAIN qm
    /\ qm[current'] = NewAudioScreen(exp, GetScreen(screens, current'))

\* Locked iff the question declares a controller
AudioSetUp ==
    FirstEntry =>
        \A qid \in DOMAIN qm'[current'].q :
            /\ qm'[current'].q[qid].disabled <=> qm'[current'].q[qid].has_unlock_condition
            /\ qm'[current'].q[qid].disabled => qm'[current'].answers[qid] = NA

QuestionnaireSetUp ==
    phase = "running" =>
        \A i \in DOMAIN screens :
            screens[i].kind = "questionnaire" =>
                \A qid \in Range(screens[i].questions) :
                    LET Q == QuestionnaireQuestions(exp, screens[i])[qid]
                    IN  /\ Q.disabled <=> Q.has_unlock_condition
                        /\ Q.disabled => Q.answer = NA

(***************************************************************************)
(* C24: after the set-up of a screen on its first entry a question of the  *)
(* screen is locked (disabled, with the answer 'n/a') iff it declares a    *)
(* controller with 'unlocked by', and every other question is enabled; on  *)
(* the audio screens and on the questionnaire screens.                     *)
(***************************************************************************)
C24_LockedIffControlled == []QuestionnaireSetUp /\ [][AudioSetUp]_vars


\* the tokens of a text split on ';'
Tokens(text) == Range(Split(text))

\* the handler that has just run was an edit of a question by the user: its
\* last step is the manager's change_answer for that question
UserEdit ==
    /\ phase = "running" /\ current \in DOMAIN qm
    /\ ghost # <<>> /\ ghost[Len(ghost)].op = "change_answer"

EditedQid == ghost[Len(ghost)].qid

EditedAnswer == ghost[Len(ghost)].answer

(***************************************************************************)
(* C25: when change_answer(v), called for an edit by the user of an        *)
(* enabled controller, has returned, each dependent of the controller is   *)
(* unlocked iff a token of v split on ';' is a token of the dependent's    *)
(* unlock condition split on ';', and locked (disabled, answer 'n/a')      *)
(* otherwise; so for an answer of several choices such as 'a;b'.           *)
(***************************************************************************)
C25_UnlockIffTokensMeet ==
    UserEdit =>
        \A i \in DOMAIN qm[current].q[EditedQid].dependants :
            LET D == qm[current].q[EditedQid].dependants[i]
                meet == Tokens(EditedAnswer) \cap Tokens(qm[current].q[D].unlock_condition) # {}
            IN  /\ ~qm[current].q[D].disabled <=> meet
                /\ ~meet => qm[current].answers[D] = NA

\* C25 happens: the answer 'a;b' of a controller with several choices has
\* unlocked a dependent whose condition is 'b;c', and the answer 'a' of the same
\* controller keeps it locked
C25_Witness ==
    /\ UserEdit
    /\ EditedAnswer = <<"a", ";", "b">>
    /\ \E i \in DOMAIN qm[current].q[EditedQid].dependants :
          LET D == qm[current].q[EditedQid].dependants[i]
          IN  /\ qm[current].q[D].unlock_condition = <<"b", ";", "c">>
              /\ ~qm[current].q[D].disabled


\* question d of the current screen declares question c as its controller
Declares(d, c) ==
    /\ qm[current].q[d].has_unlock_condition
    /\ qm[current].q[d].part_audio \o Zfill2(qm[current].q[d].unlocked_by) = c

(***************************************************************************)
(* C26: whenever a controller is locked, every question that declares it   *)
(* as its controller is locked too, whatever its unlock condition is: a    *)
(* condition with the token 'n/a' included.                                *)
(***************************************************************************)
C26_LockedControllerLocksDependents ==
    (phase = "running" /\ current \in DOMAIN qm) =>
        \A c \in DOMAIN qm[current].q, d \in DOMAIN qm[current].q :
            (Declares(d, c) /\ qm[current].q[c].disabled) => qm[current].q[d].disabled

\* the same, for the dependents whose condition has no token 'n/a'
C26_WithoutNA ==
    (phase = "running" /\ current \in DOMAIN qm) =>
        \A c \in DOMAIN qm[current].q, d \in DOMAIN qm[current].q :
            (/\ Declares(d, c) /\ qm[current].q[c].disabled
             /\ "/" \notin Range(qm[current].q[d].unlock_condition)) => qm[current].q[d].disabled


(***************************************************************************)
(* C27: for every k >= 1, a dependent that is unlocked after k calls of    *)
(* dependant_lock in a row has the answer it had before the first of them: *)
(* the later locks do not replace the answer that the first one kept.      *)
(***************************************************************************)
C27_RepeatedLocksKeepAnswer ==
    \A i \in DOMAIN ghost :
        (ghost[i].op = "unlock" /\ ghost[i].locks >= 1) => ghost[i].post = ghost[i].pre

\* the same for the questions that are not free text, and for two locks or more
C27_ChoicesKept ==
    \A i \in DOMAIN ghost :
        (ghost[i].op = "unlock" /\ ghost[i].locks >= 1 /\ ghost[i].type # "Text")
            => ghost[i].post = ghost[i].pre

\* a dependent with the answer 'b' has been locked twice or more and unlocked
C27_Repeated ==
    \E i \in DOMAIN ghost :
        /\ ghost[i].op = "unlock" /\ ghost[i].locks = MaxLocks
        /\ ghost[i].pre = <<"b">> /\ ghost[i].post = <<"b">>


\* the questions of a screen whose last lock or unlock was a lock
Locked(n) == {qid \in DOMAIN qm[n].q : qm[n].q[qid].locks >= 1}

(***************************************************************************)
(* C28: between the events every locked question is disabled, so closed to *)
(* the user, and the manager's answer for it is 'n/a': a locked question   *)
(* is never the one that makes get_state() false.                          *)
(***************************************************************************)
C28_LockedIsNA ==
    \A n \in DOMAIN qm :
        /\ \A qid \in Locked(n) : qm[n].q[qid].disabled /\ qm[n].answers[qid] = NA
        /\ GetState(qm[n]) = (\A qid \in DOMAIN qm[n].q \ Locked(n) : qm[n].answers[qid] # EmptyStr)

\* C28 happens: a question that held the answer 'b' is locked, and the manager
\* finds its screen complete
C28_Witness ==
    /\ phase = "running" /\ current \in DOMAIN qm
    /\ GetState(qm[current])
    /\ \E qid \in Locked(current) : qm[current].q[qid].answer_temp = <<"b">>


\* a question of the list names, with a condition, a controller that is not a
\* question of the same list
Unresolved(questions) ==
    \E k \in DOMAIN questions :
        /\ questions[k].has_unlocked_by /\ questions[k].has_cond
        /\ \A j \in DOMAIN questions : Zfill2(questions[j].id) # Zfill2(questions[k].unlocked_by)

\* a question of an audio screen of the configuration names a controller that is
\* not on its screen (the questions of a part replace those of its audios)
UnresolvedController(c) ==
    \E i \in DOMAIN c.parts :
        \/ c.parts[i].has_questions /\ c.parts[i].audios # <<>> /\ Unresolved(c.parts[i].questions)
        \/ ~c.parts[i].has_questions /\ \E j \in DOMAIN c.parts[i].audios :
              Unresolved(c.parts[i].audios[j].questions)

(***************************************************************************)
(* C29: a dependency whose controller is not a question of the same screen *)
(* stops the program at set-up, before the first screen is presented: the  *)
(* program never runs with it, and no failure comes up later, when the     *)
(* screen of the question is entered.                                      *)
(***************************************************************************)
C29_UnresolvedStopsStart ==
    UnresolvedController(cfg) =>
        /\ phase # "running"
        /\ phase = "crashed" => current = ""

\* the failure in the session: the KeyError of set_unlock on the way into the
\* audio screen, the welcome screen and the intro having been presented
C29_FailsOnEntry ==
    /\ UnresolvedController(cfg)
    /\ phase = "crashed" /\ current \in DOMAIN qm
    /\ qm[current].status = "KeyError"


\* how many times question d stands in the dependants list of question c of screen n
Registered(n, c, d) ==
    Cardinality({i \in DOMAIN qm[n].q[c].dependants : qm[n].q[c].dependants[i] = d})

\* question d of screen n names question c as its controller
Controls(n, c, d) ==
    /\ qm[n].q[d].has_unlock_condition
    /\ qm[n].q[d].part_audio \o Zfill2(qm[n].q[d].unlocked_by) = c

(***************************************************************************)
(* C30: the dependency edges of a screen are registered by one pass only:  *)
(* after any sequence of navigation steps, a screen left and entered again *)
(* included, each dependent stands exactly once in the dependants list of  *)
(* its controller and in the list of no other question.                    *)
(***************************************************************************)
C30_RegisteredOnce ==
    phase = "running" =>
        \A n \in DOMAIN qm : \A c \in DOMAIN qm[n].q, d \in DOMAIN qm[n].q :
            /\ Registered(n, c, d) <= 1
            /\ ~Controls(n, c, d) => Registered(n, c, d) = 0
            /\ (Controls(n, c, d) /\ n = current) => Registered(n, c, d) = 1

\* the same for the screens that have been entered once
C30_FirstEntry ==
    phase = "running" =>
        \A n \in DOMAIN qm : \A c \in DOMAIN qm[n].q, d \in DOMAIN qm[n].q :
            /\ ~Controls(n, c, d) => Registered(n, c, d) = 0
            /\ (Controls(n, c, d) /\ n = current) => Registered(n, c, d) >= 1

\* a dependent registered twice
C30_Twice ==
    /\ phase = "running" /\ current \in DOMAIN qm
    /\ \E c \in DOMAIN qm[current].q, d \in DOMAIN qm[current].q : Registered(current, c, d) = 2


\* the answers that the unlock check of the i-th change_answer of the handler
\* reads: those before it with its own entry overwritten
AnswersRead(i) == [ghost[i].before EXCEPT ![ghost[i].qid] = ghost[i].answer]

(***************************************************************************)
(* C31: within one change_answer(id, value) the entry answers[id] is       *)
(* overwritten first and the dependents react afterwards: every evaluation *)
(* of get_state() made during the call reads answers[id] = value, none     *)
(* reads the new answer of a dependent next to the old one of its          *)
(* controller.                                                             *)
(***************************************************************************)
C31_OverwriteBeforeReaction ==
    UserEdit =>
        \A i \in DOMAIN ghost :
            ghost[i].op = "change_answer" => AnswersRead(i)[EditedQid] = EditedAnswer

\* what the handler leaves behind: the last evaluation of the call reads the new
\* answer of the controller and the new answers of its dependents
C31_LastEvaluation ==
    UserEdit =>
        /\ AnswersRead(Len(ghost)) = qm[current].answers
        /\ qm[current].answers[EditedQid] = EditedAnswer
        /\ ghost[Len(ghost)].state = GetState(qm[current])

\* an evaluation that finds the screen complete with the answer 'n/a' of the
\* dependent just locked and the old answer 'a' of the controller, whose new
\* answer is ''
C31_StaleComplete ==
    /\ UserEdit /\ EditedAnswer = EmptyStr
    /\ \E i \in DOMAIN ghost :
          /\ ghost[i].op = "change_answer" /\ ghost[i].qid # EditedQid
          /\ ghost[i].answer = NA /\ ghost[i].state
          /\ ghost[i].before[EditedQid] = <<"a">>


\* the Text questions of a screen: they only display a text
TextQuestions(n) == {qid \in DOMAIN qm[n].q : qm[n].q[qid].type = "Text"}

(***************************************************************************)
(* C32: a Text question never blocks the completion of its screen: its     *)
(* answer is 'n/a' from the creation of the screen on and is not empty in  *)
(* any reachable state, also for a Text question that is a dependent and   *)
(* gets locked and unlocked.                                               *)
(***************************************************************************)
C32_TextNeverEmpty ==
    \A n \in DOMAIN qm : \A qid \in TextQuestions(n) : qm[n].answers[qid] # EmptyStr

\* the same for the Text questions that depend on no other question
C32_PlainTextIsNA ==
    \A n \in DOMAIN qm : \A qid \in TextQuestions(n) :
        ~qm[n].q[qid].has_unlock_condition => qm[n].answers[qid] = NA

\* a screen that only its Text question keeps from being complete: the audio
\* has been played, every other answer is given, the continue button is locked
C32_TextBlocks ==
    /\ phase = "running" /\ current \in DOMAIN qm
    /\ qm[current].count_left >= 1 /\ qm[current].audio_playing = "none"
    /\ ~qm[current].cont
    /\ \E qid \in TextQuestions(current) :
          /\ qm[current].answers[qid] = EmptyStr /\ ~qm[current].q[qid].disabled
          /\ \A o \in DOMAIN qm[current].q \ {qid} : qm[current].answers[o] # EmptyStr

\* a Text question that depends on no other is on the screen entered
C32_PlainTextShown ==
    /\ phase = "running" /\ current \in DOMAIN qm
    /\ \E qid \in TextQuestions(current) : ~qm[current].q[qid].has_unlock_condition


\* the screen of the name is an intro or a break
IsTimed(scr, name) == HasScreen(scr, name) /\ GetScreen(scr, name).kind \in {"intro", "break"}

\* a step that enters a timed text screen enters one that was not entered before
TimedEnteredOnce ==
    (current' # current /\ IsTimed(screens', current')) => current' \notin ui.started

\* the timers that run were started by the entry of their screen, and no two run
\* at the same time
OneTimerPending == ui.pending \subseteq ui.started /\ Cardinality(ui.pending) <= 1

(***************************************************************************)
(* C33: in every session each intro and each break is entered at most      *)
(* once, so that its progress thread is started once and one unlock of its *)
(* continue button is scheduled; no timed screen is started while the      *)
(* timer of another one is still pending.                                  *)
(***************************************************************************)
C33_TimedScreensOnce == []OneTimerPending /\ [][TimedEnteredOnce]_vars

\* C33 happens: a break is running its timer after the intro of the part has
\* run its own to the end
C33_Witness ==
    /\ phase = "running" /\ IsTimed(screens, current)
    /\ GetScreen(screens, current).kind = "break"
    /\ ui.pending = {current}
    /\ \E n \in ui.started \ ui.pending : GetScreen(screens, n).kind = "intro"


\* the answers have been written to the file
Persisted == "saved" \in DOMAIN store /\ store.saved >= 1

\* the participant id is set and the output path is the one derived from it
PidSet ==
    /\ store.has_out_path
    /\ store.pid # NoPid /\ store.pid # EmptyStr
    /\ store.out_path = store.pid

\* a step that leaves the welcome screen: in input mode the entry is not empty
\* and becomes the participant id, in auto mode the id of the construction stays
LeavingWelcome ==
    (phase = "running" /\ current = "welcome" /\ current' # "welcome") =>
        IF store.pid_mode = "input"
        THEN ui.pid_text # EmptyStr /\ store'.pid = ui.pid_text /\ store'.has_out_path
        ELSE store.has_out_path /\ store'.pid = store.pid /\ store'.out_path = store.out_path

(***************************************************************************)
(* C34: whenever the answers are written to the file, the participant id   *)
(* and the output path derived from it are set: in input mode the welcome  *)
(* screen cannot be left while the entry of the id is empty, in auto mode  *)
(* the id is set at the construction, on every path to the final screen.   *)
(***************************************************************************)
C34_PidSetWhenPersisted == [](Persisted => PidSet) /\ [][LeavingWelcome]_vars

\* C34 happens: the answers are saved under the id typed in on the welcome screen
C34_Witness ==
    /\ phase = "running" /\ current = "final" /\ Persisted
    /\ store.pid_mode = "input" /\ store.pid = <<"P", "7">>


\* the answer meets the condition: they have a token in common
Meets(answer, cond) == Tokens(answer) \cap Tokens(cond) # {}

\* question d of the current screen is unlocked, and the answer of its
\* controller c changes in the step from one that meets d's condition to
\* another one that meets it
MatchToMatch(c, d) ==
    /\ phase = "running" /\ current \in DOMAIN qm /\ current' = current
    /\ Controls(current, c, d) /\ ~qm[current].q[d].disabled
    /\ qm'[current].answers[c] # qm[current].answers[c]
    /\ Meets(qm[current].answers[c], qm[current].q[d].unlock_condition)
    /\ Meets(qm'[current].answers[c], qm[current].q[d].unlock_condition)

\* a step leaves the answer of every such dependent as it is
MatchToMatchKeepsAnswer ==
    \A c \in DOMAIN qm[current].q, d \in DOMAIN qm[current].q :
        MatchToMatch(c, d) => qm'[current].answers[d] = qm[current].answers[d]

\* a step leaves every such dependent enabled
MatchToMatchKeepsEnabled ==
    \A c \in DOMAIN qm[current].q, d \in DOMAIN qm[current].q :
        MatchToMatch(c, d) => ~qm'[current].q[d].disabled

(***************************************************************************)
(* C35: when the answer of a controller changes from one value that meets  *)
(* the condition of an unlocked dependent to another value that meets it,  *)
(* the answer of the dependent and its being enabled do not change.        *)
(***************************************************************************)
C35_MatchToMatchChangesNothing ==
    [][(phase = "running" /\ current \in DOMAIN qm) =>
          (MatchToMatchKeepsAnswer /\ MatchToMatchKeepsEnabled)]_vars

\* the half that holds: the dependent stays enabled
C35_StaysEnabled ==
    [][(phase = "running" /\ current \in DOMAIN qm) => MatchToMatchKeepsEnabled]_vars


\* the step is a navigate_previous that enters question screen n, a screen that
\* was entered and left before (every screen is reached through its previous one)
Reentry(n) ==
    /\ phase = "running" /\ current' = n /\ current # n
    /\ \E i \in DOMAIN ghost' : ghost'[i].op = "navigate_previous" /\ ghost'[i].previous = n

\* the answers of screen n and the locks of its questions are after the step
\* what they were before it
AggregatorKept(n) ==
    /\ qm'[n].answers = qm[n].answers
    /\ \A qid \in DOMAIN qm[n].q : qm'[n].q[qid].disabled = qm[n].q[qid].disabled

(***************************************************************************)
(* C36: entering a question screen again after having left it changes      *)
(* nothing in what its manager holds: every answer and the locked or       *)
(* unlocked state of every question are after the second entry what they   *)
(* were when the screen was left.                                          *)
(***************************************************************************)
C36_ReentryChangesNothing ==
    [][\A n \in DOMAIN qm : Reentry(n) => AggregatorKept(n)]_vars

\* the same for the screens none of whose questions depends on another
C36_WithoutDependents ==
    [][\A n \in DOMAIN qm :
          (Reentry(n) /\ \A qid \in DOMAIN qm[n].q : ~qm[n].q[qid].has_unlock_condition)
              => AggregatorKept(n)]_vars

\* a screen with an answered question and no dependent has been entered again
C36_PlainReentered ==
    /\ phase = "running" /\ current \in DOMAIN qm
    /\ \E i \in DOMAIN ghost : ghost[i].op = "navigate_previous" /\ ghost[i].previous = current
    /\ \E qid \in DOMAIN qm[current].q : qm[current].answers[qid] = <<"a">>
    /\ \A qid \in DOMAIN qm[current].q : ~qm[current].q[qid].has_unlock_condition


\* audio is playing on the audio screen of the name
Playing(n) == qm[n].audio_playing # "none"

\* every active audio of the screen has been played once or more
AllPlayed(n) == qm[n].count_left >= 1 /\ (qm[n].right_active => qm[n].count_right >= 1)

\* the continue button of an audio screen is locked while audio is playing, and
\* without the override it is enabled only when every active audio has been
\* played and get_state() holds
ContinueOnlyWhenDone ==
    \A n \in DOMAIN qm :
        /\ Playing(n) => ~qm[n].cont
        /\ (qm[n].cont /\ ~qm[n].state_override) => (AllPlayed(n) /\ GetState(qm[n]))

\* no step goes from an audio screen with audio playing to its next screen
NoForwardWhilePlaying ==
    (phase = "running" /\ current \in DOMAIN qm /\ Playing(current))
        => current' # GetScreen(screens, current).next_screen

(***************************************************************************)
(* C37: the continue button of an audio screen is never enabled while      *)
(* audio is playing, with the override or without it; without the override *)
(* it is enabled only when every active audio has a play count of 1 or     *)
(* more and get_state() is true.  An audio screen is therefore never left  *)
(* forwards during the playback.                                           *)
(***************************************************************************)
C37_NoContinueWhilePlaying == []ContinueOnlyWhenDone /\ [][NoForwardWhilePlaying]_vars

\* C37 happens: the audio is being played a second time on a screen whose
\* questions are all answered, and the continue button is locked
C37_Witness ==
    /\ phase = "running" /\ current \in DOMAIN qm
    /\ Playing(current) /\ qm[current].count_left = 2
    /\ DOMAIN qm[current].q # {} /\ GetState(qm[current])
    /\ ~qm[current].cont


\* every column of the table written to the file holds a value
AllColumnsFilled ==
    \A c \in Range(store.columns) : Has(store.file[1], c) /\ store.file[1][c] # EmptyStr

(***************************************************************************)
(* C38: with the override off, when the answers are written to the file    *)
(* every column of the table (every question id compiled, every replay     *)
(* counter, the timer) holds a non-empty value, whatever sequence of       *)
(* continue, back and answer steps led to the final screen.                *)
(***************************************************************************)
C38_NoEmptyColumnSaved ==
    (Persisted /\ ~cfg.override) => AllColumnsFilled

\* C38 happens: a file with the answer of a question, the replay counter of its
\* audio and the timer has been written
C38_Witness ==
    /\ Persisted /\ ~cfg.override /\ current = "final"
    /\ Cardinality(Range(store.columns)) >= 3
    /\ AllColumnsFilled


\* an edit by the participant that completes the screen: the continue button
\* is enabled after it
Completes ==
    /\ \/ \E text \in PidTexts : PidInput(text)
       \/ \E qid \in Qids, choice \in Texts : Select(qid, choice)
       \/ \E qid \in Qids, value \in Texts : SpinnerInput(qid, value)
    /\ ContinueEnabled(screens', qm', ui', current')

\* the entries of the screen's answers that are empty
Open(s) == {qid \in DOMAIN s.answers : s.answers[qid] = EmptyStr}

\* an edit by the participant that leaves fewer answers of the screen open
Fills ==
    /\ \/ \E qid \in Qids, choice \in Texts : Select(qid, choice)
       \/ \E qid \in Qids, value \in Texts : SpinnerInput(qid, value)
    /\ Cardinality(Open(qm'[current])) < Cardinality(Open(qm[current]))

\* the program with a participant who goes on: the start, the timers and the end
\* of a playback happen when they can; the participant plays the audio,
\* answers the open questions, completes a screen that an edit can complete,
\* and presses an enabled
\* continue button, each of them sooner or later
Fairness ==
    /\ WF_vars(Prepare) /\ WF_vars(Build)
    /\ WF_vars(\E name \in ui.pending : TimerDone(name))
    /\ WF_vars(DonePlaying)
    /\ WF_vars(\E side \in {"left", "right"} : Play(side))
    /\ SF_vars(Fills)
    /\ SF_vars(Completes)
    /\ SF_vars(NavigateNext)

SpecLive == Init /\ [][Next]_vars /\ Fairness

(***************************************************************************)
(* C39: with a participant who always completes the current screen and     *)
(* presses continue, the program that shows its first screen gets to the   *)
(* final screen and writes the answers to the file: the chain of screens   *)
(* leads through every screen compiled and no screen is a dead end.        *)
(***************************************************************************)
C39_FinalReached == (phase = "running") ~> (current = "final" /\ Persisted)

\* the configuration has no questionnaire, no dependent question and no break
PlainSession ==
    /\ ~cfg.has_questionnaire /\ ~cfg.demo
    /\ \A i \in DOMAIN cfg.parts :
          /\ ~cfg.parts[i].questionnaire.present /\ ~cfg.parts[i].breaks.present
          /\ \A j \in DOMAIN cfg.parts[i].audios :
                \A k \in DOMAIN cfg.parts[i].audios[j].questions :
                    ~cfg.parts[i].audios[j].questions[k].has_unlocked_by

\* the sessions that do get to the final screen, unless the back button of the
\* end screen is pressed on the way: that press ends the program
C39_PlainSessionsEnd ==
    (phase = "running" /\ PlainSession)
        ~> (\/ current = "final" /\ Persisted
            \/ current = "end" /\ phase = "crashed")

============================================================================
